---- MODULE Spec2Model ----
(***************************************************************************)
(* A model of SSEClient (front/src/lib/sse-client.ts): the streamed        *)
(* request, the read loop with its line decoder, the reconnection policy   *)
(* and the consumer callbacks.                                             *)
(*                                                                         *)
(* Text is a sequence of one-character strings.  The response body is a    *)
(* sequence of bytes: an ASCII byte is written as its character, and the   *)
(* two bytes "C3" "A9" are the UTF-8 encoding of the character "U+E9".     *)
(*                                                                         *)
(* Every handler of the client (the code run between two awaits) is one    *)
(* action.  A handler is a function from a state record to a state record, *)
(* so that a consumer callback that calls back into the client (connect,   *)
(* disconnect) is part of the handler that invoked it.                     *)
(***************************************************************************)
EXTENDS Integers, Sequences, FiniteSets, TLC

\* ------------------------------------------------------------------ bounds
\* The largest retry ceiling (maxReconnectAttempts) a client is built with.
MaxCeiling == 1
\* The largest number of pieces a response body of DecSpec is built from.
MaxPieces == 2

\* The most messages the store keeps for one key.
MaxMessages == 2
\* The largest number of connect() calls of one behaviour: MaxCeiling + 1
\* failures in a row, and one call after them.
MaxConns == MaxCeiling + 2

\* ------------------------------------------------------------- characters
LF == "\n"
CR == "\r"
Lead == "C3"
Cont == "A9"
EAcute == "U+E9"
Replacement == "U+FFFD"

DATA == <<"d", "a", "t", "a">>
EVENT == <<"e", "v", "e", "n", "t">>
ID == <<"i", "d">>
MESSAGE == <<"m", "e", "s", "s", "a", "g", "e">>
\* The value of new Date().toISOString(): a time no payload declares.
Now == <<"n", "o", "w">>

\* ------------------------------------------------------------ text helpers
\* s.slice(i): the characters of s from the i-th (1-based) on.
Slice(s, i) == SubSeq(s, i, Len(s))

\* s.startsWith(<<ch>>)
StartsWith(s, ch) == Len(s) > 0 /\ s[1] = ch

\* s.indexOf(ch), 1-based; 0 when ch does not occur (-1 in the source).
IndexOf(s, ch) ==
  IF \E i \in 1..Len(s) : s[i] = ch
  THEN CHOOSE i \in 1..Len(s) : s[i] = ch /\ \A j \in 1..(i - 1) : s[j] # ch
  ELSE 0

RECURSIVE SplitFrom(_, _, _, _)
SplitFrom(s, i, cur, acc) ==
  IF i > Len(s) THEN Append(acc, cur)
  ELSE IF s[i] = LF THEN SplitFrom(s, i + 1, <<>>, Append(acc, cur))
  ELSE SplitFrom(s, i + 1, Append(cur, s[i]), acc)

\* s.split("\n"): n line feeds give n + 1 segments.
SplitLF(s) == SplitFrom(s, 1, <<>>, <<>>)

RECURSIVE JoinFrom(_, _)
JoinFrom(ls, i) ==
  IF i > Len(ls) THEN <<>>
  ELSE IF i = Len(ls) THEN ls[i]
  ELSE ls[i] \o <<LF>> \o JoinFrom(ls, i + 1)

\* ls.join("\n")
JoinLF(ls) == JoinFrom(ls, 1)

\* ------------------------------------------------------------- TextDecoder
\* decoder.decode(value, {stream: true}): the UTF-8 decoder keeps the lead
\* byte of an incomplete sequence for the next call.  pending is <<>> or
\* <<Lead>>.  The result is [out: the characters, pending: the carry].
RECURSIVE DecodeFrom(_, _, _, _)
DecodeFrom(bytes, i, pending, out) ==
  IF i > Len(bytes) THEN [out |-> out, pending |-> pending]
  ELSE IF pending # <<>>
    THEN IF bytes[i] = Cont
         THEN DecodeFrom(bytes, i + 1, <<>>, Append(out, EAcute))
         ELSE DecodeFrom(bytes, i, <<>>, Append(out, Replacement))
  ELSE IF bytes[i] = Lead THEN DecodeFrom(bytes, i + 1, <<Lead>>, out)
  ELSE IF bytes[i] = Cont THEN DecodeFrom(bytes, i + 1, <<>>, Append(out, Replacement))
  ELSE DecodeFrom(bytes, i + 1, <<>>, Append(out, bytes[i]))

\* A decoder called without {stream: true}: an incomplete sequence at the end
\* of a chunk is flushed as U+FFFD.
TextDecodeNoStream(pending, bytes) ==
  LET r == DecodeFrom(bytes, 1, <<>>, <<>>)
  IN [out |-> IF r.pending # <<>> THEN Append(r.out, Replacement) ELSE r.out,
      pending |-> <<>>]

TextDecode(pending, bytes) == DecodeFrom(bytes, 1, pending, <<>>)

\* --------------------------------------------------------------- JSON.parse
IsJSONSpace(ch) == ch \in {" ", LF, CR, "\t"}

RECURSIVE TrimLeft(_)
TrimLeft(s) ==
  IF Len(s) > 0 /\ IsJSONSpace(s[1]) THEN TrimLeft(Tail(s)) ELSE s

RECURSIVE TrimRight(_)
TrimRight(s) ==
  IF Len(s) > 0 /\ IsJSONSpace(s[Len(s)])
  THEN TrimRight(SubSeq(s, 1, Len(s) - 1)) ELSE s

\* The characters between which JSON allows white space.
IsJSONStructural(ch) == ch \in {"{", "}", "[", "]", ":", ","}

\* The first character of s from the i-th on that is no white space, "" when
\* there is none.
RECURSIVE NextNonSpace(_, _)
NextNonSpace(s, i) ==
  IF i > Len(s) THEN ""
  ELSE IF IsJSONSpace(s[i]) THEN NextNonSpace(s, i + 1)
  ELSE s[i]

\* s without the white space that stands outside a string next to a
\* structural character.
RECURSIVE SqueezeFrom(_, _, _, _)
SqueezeFrom(s, i, inString, out) ==
  IF i > Len(s) THEN out
  ELSE IF s[i] = "\""
    THEN SqueezeFrom(s, i + 1, ~inString, Append(out, s[i]))
  ELSE IF /\ ~inString /\ IsJSONSpace(s[i])
          /\ \/ out = <<>> \/ IsJSONStructural(out[Len(out)])
             \/ NextNonSpace(s, i) = "" \/ IsJSONStructural(NextNonSpace(s, i))
    THEN SqueezeFrom(s, i + 1, inString, out)
  ELSE SqueezeFrom(s, i + 1, inString, Append(out, s[i]))

\* The JSON text raw without its insignificant white space.
Squeeze(raw) == SqueezeFrom(TrimRight(TrimLeft(raw)), 1, FALSE, <<>>)

Quote == "\""

\* {"a":
DocAHead == <<"{", Quote, "a", Quote, ":">>
\* 1}
DocATail == <<"1", "}">>
\* {"a":1}
DocA == DocAHead \o DocATail
\* {"type":"x","timestamp":"T"}
DocTyped ==
  <<"{", Quote, "t", "y", "p", "e", Quote, ":", Quote, "x", Quote, ",",
    Quote, "t", "i", "m", "e", "s", "t", "a", "m", "p", Quote, ":",
    Quote, "T", Quote, "}">>
\* {"type":"","timestamp":""}
DocFalsy ==
  <<"{", Quote, "t", "y", "p", "e", Quote, ":", Quote, Quote, ",",
    Quote, "t", "i", "m", "e", "s", "t", "a", "m", "p", Quote, ":",
    Quote, Quote, "}">>
\* null
DocNull == <<"n", "u", "l", "l">>
\* "s"
DocString == <<Quote, "s", Quote>>
\* not-json
NotJSON == <<"n", "o", "t", "-", "j", "s", "o", "n">>

\* The JSON documents of this model, without white space, with what
\* JSON.parse makes of them: typeof of the value, and its properties type and
\* timestamp, <<>> when it has none (undefined) and <<text>> when it has the
\* string text.
JSONDocs ==
  { [text |-> <<"1">>, typeof |-> "number", type |-> <<>>, timestamp |-> <<>>],
    [text |-> DocA, typeof |-> "object", type |-> <<>>, timestamp |-> <<>>],
    [text |-> DocTyped, typeof |-> "object",
     type |-> <<<<"x">>>>, timestamp |-> <<<<"T">>>>],
    [text |-> DocFalsy, typeof |-> "object",
     type |-> <<<<>>>>, timestamp |-> <<<<>>>>],
    [text |-> DocNull, typeof |-> "object", type |-> <<>>, timestamp |-> <<>>],
    [text |-> DocString, typeof |-> "string", type |-> <<>>, timestamp |-> <<>>] }

\* JSON.parse(rawData) on the texts of this model: [ok: it did not throw,
\* typeof: typeof of the value (of rawData when it threw), type, timestamp:
\* the value's properties].  Every other text the model's bodies produce is
\* no JSON document.
JSONParse(raw) ==
  LET t == Squeeze(raw)
  IN IF \E d \in JSONDocs : d.text = t
     THEN LET d == CHOOSE d \in JSONDocs : d.text = t
          IN [ok |-> TRUE, typeof |-> d.typeof, type |-> d.type,
              timestamp |-> d.timestamp]
     ELSE [ok |-> FALSE, typeof |-> "string", type |-> <<>>, timestamp |-> <<>>]

\* A property value that is truthy: a string that is not empty.
Truthy(property) == property # <<>> /\ property[1] # <<>>

\* -------------------------------------------------------------------- state
VARIABLES
  options,            \* SSEClientOptions: [autoReconnect, maxReconnectAttempts]
  abortController,    \* this.abortController: 0 (null) or the connection it aborts
  reconnectTimeout,   \* this.reconnectTimeout: 0 (null) or a timer handle
  reconnectAttempts,  \* this.reconnectAttempts
  conns,              \* the performConnect invocations, in the order of connect()
  timers,             \* the timer handles set and neither fired nor cleared
  sinceZero,          \* history: failures that took the retry decision since
                      \* the attempt count was last set to 0
  calls,              \* history: the caller's calls of connect and disconnect,
                      \* from callbacks too: 0, 1 (one connect), 2 (more)
  last                \* history: the handler that ran last: [op, c, done,
                      \* did: what its callback called, cbs: the callbacks
                      \* it invoked, in order, escaped: it ended with an
                      \* error that nothing caught]

\* The state of useSSEStore.  A Record<string, T> is a function from the keys
\* it has to their entries.
VARIABLES
  messages,           \* Record<string, SSEMessage[]>
  isConnected,        \* Record<string, boolean>
  errors              \* Record<string, string | null>: <<>> is null, <<e>> a string

\* One component that calls useSSE.  gen: the SSEClients its effect has
\* created (0: the client of this module is used without the hook); live:
\* clientRef.current is the latest of them; phase: "new", "mounted",
\* "unmounted"; enabled: enabled && url; keyed: a storeKey is passed; fresh:
\* the consumer passes new callback closures on every render; dirty: state
\* the hook reads has changed and the component has not rendered since;
\* localMessages, localIsConnected, localError: the useState values; owner:
\* the client of each performConnect invocation; old: the fields of the
\* clients before the latest.  History: late (a disposed client has written
\* to the store or the local state).
VARIABLES hook

vars ==
  <<options, abortController, reconnectTimeout, reconnectAttempts, conns,
    timers, sinceZero, calls, last, messages, isConnected, errors, hook>>

\* The fields of the client.
clientVars ==
  <<options, abortController, reconnectTimeout, reconnectAttempts, conns,
    timers, sinceZero, calls, last>>

\* What a consumer callback does besides returning: nothing, or a call of the
\* client's disconnect() or connect().
Reactions == {"none", "disconnect", "connect"}

\* What a consumer callback of ThrowSpec does: it returns, or it throws.
ThrowReactions == {"none", "throw"}

\* const buffer: SSEEventBuffer = { event: "message", data: [] }; id is <<>>
\* (undefined) or <<value>>.
EmptyBuffer == [event |-> MESSAGE, data |-> <<>>, id |-> <<>>]

\* One performConnect invocation.  pc: "fetch" (awaiting fetch), "read"
\* (awaiting reader.read()), "end" (returned), "failed" (in or past the catch
\* of a genuine failure).  aborted: "no", or when signal.aborted became true:
\* "inflight" (pc was fetch or read) or "after".  body, pos: the response
\* body and the bytes of it read so far.  pending, partial, buffer: the
\* decoder, the carry-over line and the frame.  History: h (the callbacks
\* invoked, in order), msgs (the messages given to onMessage), late (the
\* callbacks invoked with signal.aborted), armed (its catch set a timer), by
\* (who called connect), cut (a chunk ended inside a line that the body
\* continues).
NewConn(by) ==
  [pc |-> "fetch", aborted |-> "no", body |-> <<>>, pos |-> 0,
   pending |-> <<>>, partial |-> <<>>, buffer |-> EmptyBuffer,
   h |-> <<>>, msgs |-> <<>>, late |-> {}, armed |-> FALSE, by |-> by,
   cut |-> FALSE]

\* An invocation that has returned and is not the latest one.
Gone == [NewConn("caller") EXCEPT !.pc = "gone"]

\* An invocation whose signal is aborted, without its locals: they are dead
\* once its handler has returned, as all it can still do is catch the
\* rejection and return.
Aborted(cn) ==
  [cn EXCEPT !.body = <<>>, !.pos = 0, !.pending = <<>>, !.partial = <<>>,
             !.buffer = EmptyBuffer, !.msgs = <<>>, !.cut = FALSE]

\* What the model keeps of the invocations after a handler: the latest one
\* with its history (less its locals when its signal is aborted), of an
\* earlier one where it waits and the flags late and armed, of an earlier one
\* that has returned nothing.
Tidy(cs) ==
  [i \in 1..Len(cs) |->
     IF i = Len(cs)
     THEN IF cs[i].aborted # "no" THEN Aborted(cs[i]) ELSE cs[i]
     ELSE IF cs[i].pc \in {"end", "failed", "gone"} THEN Gone
     ELSE [Aborted(cs[i]) EXCEPT !.h = <<>>, !.by = "caller"]]

\* No component: the client is used as it is.
NoHook ==
  [gen |-> 0, live |-> FALSE, phase |-> "new", enabled |-> FALSE,
   keyed |-> FALSE, fresh |-> FALSE, dirty |-> FALSE,
   localMessages |-> <<>>, localIsConnected |-> FALSE, localError |-> <<>>,
   owner |-> <<>>, old |-> <<>>, late |-> FALSE]

\* The state as a record, with the consumer's reaction of this handler: the
\* at-th callback the handler invokes calls react.  me: the client whose code
\* runs.
St(react, at) ==
  [options |-> options, abortController |-> abortController,
   reconnectTimeout |-> reconnectTimeout,
   reconnectAttempts |-> reconnectAttempts, conns |-> conns,
   timers |-> timers, sinceZero |-> sinceZero, calls |-> calls,
   react |-> react, at |-> at, done |-> FALSE, did |-> "none", cbs |-> <<>>,
   thrown |-> FALSE, escaped |-> FALSE,
   messages |-> messages, isConnected |-> isConnected, errors |-> errors,
   hook |-> hook, me |-> hook.gen, stash |-> <<>>]

\* The state after the handler op of invocation c (0: of the caller or a
\* timer).  (r is bound so that the handler is evaluated once.)
Commit(s, op, c) ==
  \E r \in {s} :
    /\ calls' = r.calls
    /\ last' = [op |-> op, c |-> c, done |-> r.done, did |-> r.did,
                cbs |-> r.cbs, escaped |-> r.escaped]
    /\ options' = r.options
    /\ abortController' = r.abortController
    /\ reconnectTimeout' = r.reconnectTimeout
    /\ reconnectAttempts' = r.reconnectAttempts
    /\ conns' = Tidy(r.conns)
    /\ timers' = r.timers
    /\ sinceZero' = r.sinceZero
    /\ messages' = r.messages
    /\ isConnected' = r.isConnected
    /\ errors' = r.errors
    /\ hook' = r.hook

\* ------------------------------------------------------ connect, disconnect
\* this.abortController.abort(); this.abortController = null
AbortCurrent(s) ==
  IF s.abortController # 0
  THEN LET c == s.abortController
       IN [s EXCEPT !.conns[c].aborted =
                      IF @ # "no" THEN @
                      ELSE IF s.conns[c].pc \in {"fetch", "read"}
                           THEN "inflight" ELSE "after",
                    !.abortController = 0]
  ELSE s

\* clearTimeout(this.reconnectTimeout); this.reconnectTimeout = null
ClearTimer(s) ==
  IF s.reconnectTimeout # 0
  THEN [s EXCEPT !.timers = @ \ {s.reconnectTimeout}, !.reconnectTimeout = 0]
  ELSE s

\* this.reconnectAttempts = 0
ZeroAttempts(s) == [s EXCEPT !.reconnectAttempts = 0, !.sinceZero = 0]

\* A disconnect that resets the attempt count whatever it is asked.
DisconnectAlwaysResets(s, resetAttempts) ==
  ZeroAttempts(ClearTimer(AbortCurrent(s)))

\* disconnect(resetAttempts)
Disconnect(s, resetAttempts) ==
  LET s1 == ClearTimer(AbortCurrent(s))
  IN IF resetAttempts THEN ZeroAttempts(s1) ELSE s1

\* A connect() whose decoder is the client's and not the connection's: the
\* new invocation goes on with the carry-over line and the frame of the one
\* before it.
ConnectSharesDecoder(s, by) ==
  LET s1 == Disconnect(s, FALSE)
      n == Len(s.conns)
      conn == IF n = 0 THEN NewConn(by)
              ELSE [NewConn(by) EXCEPT !.partial = s.conns[n].partial,
                                       !.buffer = s.conns[n].buffer]
  IN [s1 EXCEPT !.abortController = Len(s1.conns) + 1,
                !.conns = Append(@, conn)]

\* connect(): disconnect(false), a new AbortController, performConnect() up to
\* its await of fetch.
Connect(s, by) ==
  LET s1 == Disconnect(s, FALSE)
  IN [s1 EXCEPT !.abortController = Len(s1.conns) + 1,
                !.conns = Append(@, NewConn(by))]

\* The caller has made a call.
Called(s) == [s EXCEPT !.calls = IF @ = 0 /\ s.conns # <<>> THEN 1 ELSE 2]

\* ------------------------------------------------------------------ useSSE
\* { ...table, [key]: value }
Put(table, key, value) ==
  [k \in DOMAIN table \cup {key} |-> IF k = key THEN value ELSE table[k]]

\* state.messages[key] || []
Entry(table, key) == IF key \in DOMAIN table THEN table[key] ELSE <<>>

\* The storeKey of the component, when it passes one.
storeKey == "a"

\* The maxMessages of the component: below what the model lets a key hold.
maxMessages == MaxMessages - 1

\* err.message of the errors performConnect throws.
ErrorMessage == <<"Connection error">>

\* What a render of the component reads: the useState values, and with a
\* storeKey the three entries of its key.
Reads(s) ==
  <<s.hook.localMessages, s.hook.localIsConnected, s.hook.localError,
    IF s.hook.keyed THEN <<s.messages, s.isConnected, s.errors>> ELSE <<>>>>

\* What the hook's helpers write to.
Written(s) ==
  <<s.hook.localMessages, s.hook.localIsConnected, s.hook.localError,
    s.messages, s.isConnected, s.errors>>

\* The state t after a helper has run in s: a render is due when what the
\* component reads has changed.
Touched(s, t) ==
  IF t.hook.phase = "mounted" /\ Reads(t) # Reads(s)
  THEN [t EXCEPT !.hook.dirty = TRUE]
  ELSE t

\* updateConnected: if (storeKey) setConnected(storeKey, connected);
\* setLocalIsConnected(connected).  A useState setter of a component that is
\* not mounted does nothing.
updateConnected(s, connected) ==
  LET s1 == IF s.hook.keyed
            THEN [s EXCEPT !.isConnected = Put(@, storeKey, connected)]
            ELSE s
      s2 == IF s.hook.phase = "mounted"
            THEN [s1 EXCEPT !.hook.localIsConnected = connected]
            ELSE s1
  IN Touched(s, s2)

\* updateError: if (storeKey) setStoreError(storeKey, errMsg);
\* setLocalError(errMsg)
updateError(s, errMsg) ==
  LET s1 == IF s.hook.keyed
            THEN [s EXCEPT !.errors = Put(@, storeKey, errMsg)]
            ELSE s
      s2 == IF s.hook.phase = "mounted"
            THEN [s1 EXCEPT !.hook.localError = errMsg]
            ELSE s1
  IN Touched(s, s2)

\* updated.length > maxMessages ? updated.slice(-maxMessages) : updated
Capped(updated) ==
  IF Len(updated) > maxMessages
  THEN SubSeq(updated, Len(updated) - maxMessages + 1, Len(updated))
  ELSE updated

\* pushMessage with storeMessages = true (the default): if (storeKey)
\* addMessage(storeKey, message); setLocalMessages(prev => ...)
pushMessage(s, message) ==
  LET s1 == IF s.hook.keyed
            THEN [s EXCEPT !.messages =
                    Put(@, storeKey, Append(Entry(s.messages, storeKey), message))]
            ELSE s
      s2 == IF s.hook.phase = "mounted"
            THEN [s1 EXCEPT !.hook.localMessages = Capped(Append(@, message))]
            ELSE s1
  IN Touched(s, s2)

\* The client whose code runs has been disposed of: the effect's cleanup has
\* disconnected it.
Disposed(s) == s.me < s.hook.gen \/ ~s.hook.live

\* The callbacks useSSE gives its client (onOpen, onMessage, onError,
\* onClose), up to the call of the consumer's callback.
HookCallback(s, c, kind) ==
  IF s.hook.gen = 0 THEN s
  ELSE LET t == CASE kind = "open" -> updateError(updateConnected(s, TRUE), <<>>)
                  [] kind = "msg" ->
                       pushMessage(s, s.conns[c].msgs[Len(s.conns[c].msgs)])
                  [] kind = "error" ->
                       updateError(updateConnected(s, FALSE), ErrorMessage)
                  [] OTHER -> updateConnected(s, FALSE)
       IN IF Disposed(s) /\ Written(t) # Written(s)
          THEN [t EXCEPT !.hook.late = TRUE]
          ELSE t

\* The disconnect that useSSE returns: clientRef.current?.disconnect();
\* updateConnected(false)
HookDisconnect(s) ==
  updateConnected(IF s.hook.live THEN Disconnect(s, TRUE) ELSE s, FALSE)

\* The reconnect that useSSE returns: disconnect(); if (enabled && url)
\* clientRef.current?.connect()
HookReconnect(s) ==
  LET s1 == HookDisconnect(s)
  IN IF s1.hook.enabled /\ s1.hook.live THEN Connect(s1, "caller") ELSE s1

\* The clearMessages that useSSE returns.
HookClearMessages(s) ==
  LET s1 == IF s.hook.keyed
            THEN [s EXCEPT !.messages = Put(@, storeKey, <<>>)]
            ELSE s
      s2 == IF s.hook.phase = "mounted"
            THEN [s1 EXCEPT !.hook.localMessages = <<>>]
            ELSE s1
  IN Touched(s, s2)

\* this.abortController, this.reconnectTimeout, this.reconnectAttempts
Fields(s) ==
  [abortController |-> s.abortController,
   reconnectTimeout |-> s.reconnectTimeout,
   reconnectAttempts |-> s.reconnectAttempts]

\* The cleanup the effect returns: client.disconnect(); clientRef.current =
\* null; updateConnected(false)
Cleanup(s) ==
  updateConnected([Disconnect(s, TRUE) EXCEPT !.hook.live = FALSE], FALSE)

\* The effect: if (!enabled || !url) { updateConnected(false); return };
\* const client = new SSEClient(...); clientRef.current = client;
\* client.connect()
EffectBody(s) ==
  IF ~s.hook.enabled THEN updateConnected(s, FALSE)
  ELSE LET g == s.hook.gen
           s1 == [s EXCEPT !.hook.old = IF g = 0 THEN @ ELSE Append(@, Fields(s)),
                           !.hook.gen = g + 1,
                           !.hook.live = TRUE,
                           !.me = g + 1,
                           !.abortController = 0,
                           !.reconnectTimeout = 0,
                           !.reconnectAttempts = 0]
       IN Connect(s1, "caller")

\* The effect runs again: the cleanup of the run before, if it returned one,
\* then the effect.
Effect(s) == EffectBody(IF s.hook.live THEN Cleanup(s) ELSE s)

\* The code of invocation c (or of the timer it set) runs: on the fields of
\* the client that made it.
Enter(s, c) ==
  LET g == s.hook.owner[c]
  IN IF g = s.hook.gen THEN s
     ELSE [s EXCEPT !.me = g,
                    !.stash = Fields(s),
                    !.abortController = s.hook.old[g].abortController,
                    !.reconnectTimeout = s.hook.old[g].reconnectTimeout,
                    !.reconnectAttempts = s.hook.old[g].reconnectAttempts]

\* The handler returns: the invocations it has made are its client's.
Leave(s) ==
  LET n == Len(s.conns) - Len(s.hook.owner)
      s1 == [s EXCEPT !.hook.owner = @ \o [i \in 1..n |-> s.me]]
  IN IF s.me = s.hook.gen THEN s1
     ELSE [s1 EXCEPT !.hook.old[s.me] = Fields(s),
                     !.abortController = s.stash.abortController,
                     !.reconnectTimeout = s.stash.reconnectTimeout,
                     !.reconnectAttempts = s.stash.reconnectAttempts]

\* ---------------------------------------------------------------- callbacks
\* The consumer's code in a callback.
React(s) ==
  IF s.at = 1
  THEN LET s1 == [s EXCEPT !.at = 0, !.did = s.react]
       IN CASE s.react = "disconnect" -> Called(Disconnect(s1, TRUE))
            [] s.react = "connect" -> Called(Connect(s1, "caller"))
            [] s.react = "throw" -> [s1 EXCEPT !.thrown = TRUE]
            [] s.react = "useSSE.disconnect" -> Called(HookDisconnect(s1))
            [] s.react = "useSSE.reconnect" -> Called(HookReconnect(s1))
            [] OTHER -> s1
  ELSE IF s.at > 1 THEN [s EXCEPT !.at = @ - 1] ELSE s

\* this.options.onOpen?.(), onError?.(error), onClose?.()
Callback(s, c, kind) ==
  React(HookCallback([s EXCEPT !.cbs = Append(@, kind),
                               !.conns[c].h = Append(@, kind),
                               !.conns[c].late =
                                 IF s.conns[c].aborted # "no" THEN @ \cup {kind} ELSE @],
                     c, kind))

\* this.options.onMessage?.(message)
OnMessage(s, c, message) ==
  Callback([s EXCEPT !.conns[c].msgs = Append(@, message)], c, "msg")

\* ------------------------------------------------------------------ decoder
\* dispatchMessage(buffer): the message of the frame, onMessage, then the
\* frame is reset.
\* let parsedData = rawData; try { parsedData = JSON.parse(rawData) } catch {}
\* A parsed value is written as its JSON text without insignificant white
\* space.
Payload(rawData) ==
  LET p == JSONParse(rawData)
  IN [json |-> p.ok,
      v |-> IF p.ok THEN Squeeze(rawData) ELSE rawData]

\* A message made of the last data line alone.
MessageOfLastLine(buffer) ==
  LET rawData == buffer.data[Len(buffer.data)]
      p == JSONParse(rawData)
      declared == IF p.typeof = "object" THEN p.timestamp ELSE <<>>
  IN [event |-> IF buffer.event # <<>> THEN buffer.event ELSE MESSAGE,
      type |-> IF p.typeof = "object" /\ Truthy(p.type) THEN p.type[1] ELSE MESSAGE,
      data |-> Payload(rawData),
      timestamp |-> IF Truthy(declared) THEN declared[1] ELSE Now]

\* A message whose timestamp is always the time of the dispatch.
MessageOfGeneratedTime(buffer) ==
  LET rawData == JoinLF(buffer.data)
      p == JSONParse(rawData)
  IN [event |-> IF buffer.event # <<>> THEN buffer.event ELSE MESSAGE,
      type |-> IF p.typeof = "object" /\ Truthy(p.type) THEN p.type[1] ELSE MESSAGE,
      data |-> Payload(rawData),
      timestamp |-> Now]

MessageOf(buffer) ==
  LET rawData == JoinLF(buffer.data)
      p == JSONParse(rawData)
      declared == IF p.typeof = "object" THEN p.timestamp ELSE <<>>
  IN [event |-> IF buffer.event # <<>> THEN buffer.event ELSE MESSAGE,
      type |-> IF p.typeof = "object" /\ Truthy(p.type) THEN p.type[1] ELSE MESSAGE,
      data |-> Payload(rawData),
      timestamp |-> IF Truthy(declared) THEN declared[1] ELSE Now]

\* A dispatch that leaves the frame as it is.
DispatchNoReset(s, c) == OnMessage(s, c, MessageOf(s.conns[c].buffer))

\* A dispatch that empties the data lines and leaves the event name and id.
DispatchKeepsEvent(s, c) ==
  LET s1 == OnMessage(s, c, MessageOf(s.conns[c].buffer))
  IN [s1 EXCEPT !.conns[c].buffer.data = <<>>]

\* A dispatch that delivers a frame only if its data is JSON.
DispatchOnlyValid(s, c) ==
  LET s1 == IF JSONParse(JoinLF(s.conns[c].buffer.data)).ok
            THEN OnMessage(s, c, MessageOf(s.conns[c].buffer))
            ELSE s
  IN [s1 EXCEPT !.conns[c].buffer = EmptyBuffer]

DispatchMessage(s, c) ==
  LET s1 == OnMessage(s, c, MessageOf(s.conns[c].buffer))
  IN IF s1.thrown THEN s1 ELSE [s1 EXCEPT !.conns[c].buffer = EmptyBuffer]

\* line.replace(/\r$/, "")
Normalize(line) ==
  IF Len(line) > 0 /\ line[Len(line)] = CR
  THEN SubSeq(line, 1, Len(line) - 1) ELSE line

\* The value of a field line: what follows the first colon, less one leading
\* space.
FieldValue(normalized, colonIndex) ==
  LET value == Slice(normalized, colonIndex + 1)
  IN IF StartsWith(value, " ") THEN Slice(value, 2) ELSE value

\* A parseLine that reads a line without colon as a field name with an empty
\* value, as the EventSource standard does.
ParseLineNoColonIsField(s, c, line) ==
  LET normalized == Normalize(line)
      colonIndex == IndexOf(normalized, ":")
      field == IF colonIndex = 0 THEN normalized
               ELSE SubSeq(normalized, 1, colonIndex - 1)
      value == IF colonIndex = 0 THEN <<>> ELSE FieldValue(normalized, colonIndex)
  IN IF normalized = <<>>
     THEN IF Len(s.conns[c].buffer.data) > 0 THEN DispatchMessage(s, c) ELSE s
     ELSE IF StartsWith(normalized, ":") THEN s
     ELSE CASE field = EVENT -> [s EXCEPT !.conns[c].buffer.event = value]
            [] field = DATA -> [s EXCEPT !.conns[c].buffer.data = Append(@, value)]
            [] field = ID -> [s EXCEPT !.conns[c].buffer.id = <<value>>]
            [] OTHER -> s

\* A parseLine that empties the frame on a blank line without data, as the
\* EventSource standard does.
ParseLineBlankResets(s, c, line) ==
  LET normalized == Normalize(line)
      colonIndex == IndexOf(normalized, ":")
      field == SubSeq(normalized, 1, colonIndex - 1)
      value == FieldValue(normalized, colonIndex)
  IN IF normalized = <<>>
     THEN IF Len(s.conns[c].buffer.data) > 0 THEN DispatchMessage(s, c)
          ELSE [s EXCEPT !.conns[c].buffer = EmptyBuffer]
     ELSE IF StartsWith(normalized, ":") THEN s
     ELSE IF colonIndex = 0 THEN s
     ELSE CASE field = EVENT -> [s EXCEPT !.conns[c].buffer.event = value]
            [] field = DATA -> [s EXCEPT !.conns[c].buffer.data = Append(@, value)]
            [] field = ID -> [s EXCEPT !.conns[c].buffer.id = <<value>>]
            [] OTHER -> s

\* parseLine(line, buffer)
ParseLine(s, c, line) ==
  LET normalized == Normalize(line)
      colonIndex == IndexOf(normalized, ":")
      field == SubSeq(normalized, 1, colonIndex - 1)
      value == FieldValue(normalized, colonIndex)
  IN IF normalized = <<>>
     THEN IF Len(s.conns[c].buffer.data) > 0 THEN DispatchMessage(s, c) ELSE s
     ELSE IF StartsWith(normalized, ":") THEN s
     ELSE IF colonIndex = 0 THEN s
     ELSE CASE field = EVENT -> [s EXCEPT !.conns[c].buffer.event = value]
            [] field = DATA -> [s EXCEPT !.conns[c].buffer.data = Append(@, value)]
            [] field = ID -> [s EXCEPT !.conns[c].buffer.id = <<value>>]
            [] OTHER -> s

\* for (const line of lines) this.parseLine(line, buffer)
RECURSIVE ParseLines(_, _, _, _)
ParseLines(s, c, lines, i) ==
  IF i > Len(lines) \/ s.thrown THEN s
  ELSE ParseLines(ParseLine(s, c, lines[i]), c, lines, i + 1)

\* A read loop that drops the unterminated segment instead of keeping it.
CarryOverDropped(lines) == <<>>

\* partial = lines.pop() || "": the segment after the last line feed.
CarryOver(lines) == lines[Len(lines)]

\* One turn of the read loop on a chunk of k bytes: decode, split on line
\* feed, keep the last segment, parse the complete lines.
ReadChunkBody(s, c, k) ==
  LET cn == s.conns[c]
      d == CHOOSE r \in {TextDecode(cn.pending, SubSeq(cn.body, cn.pos + 1, cn.pos + k))} : TRUE
      lines == CHOOSE r \in {SplitLF(cn.partial \o d.out)} : TRUE
      s1 == [s EXCEPT !.conns[c].pos = @ + k,
                      !.conns[c].pending = d.pending,
                      !.conns[c].partial = CarryOver(lines),
                      !.conns[c].cut =
                         @ \/ (cn.pos + k < Len(cn.body)
                               /\ (CarryOver(lines) # <<>> \/ d.pending # <<>>))]
  IN ParseLines(s1, c, SubSeq(lines, 1, Len(lines) - 1), 1)

\* ----------------------------------------------------------------- handlers
\* A retry decision that compares with <= instead of <.
RetryPolicyOffByOne(s, c) ==
  LET s1 == [s EXCEPT !.sinceZero = @ + 1]
      max == s.options.maxReconnectAttempts
  IN IF s.options.autoReconnect /\ (max = 0 \/ s.reconnectAttempts <= max)
     THEN [s1 EXCEPT !.reconnectAttempts = @ + 1,
                     !.reconnectTimeout = c,
                     !.timers = @ \cup {c},
                     !.conns[c].armed = TRUE]
     ELSE s1

\* A retry decision that reads the ceiling 0 as no retry at all.
RetryPolicyZeroIsNone(s, c) ==
  LET s1 == [s EXCEPT !.sinceZero = @ + 1]
      max == s.options.maxReconnectAttempts
  IN IF s.options.autoReconnect /\ s.reconnectAttempts < max
     THEN [s1 EXCEPT !.reconnectAttempts = @ + 1,
                     !.reconnectTimeout = c,
                     !.timers = @ \cup {c},
                     !.conns[c].armed = TRUE]
     ELSE s1

\* A retry decision that does not look at autoReconnect.
RetryPolicyIgnoresFlag(s, c) ==
  LET s1 == [s EXCEPT !.sinceZero = @ + 1]
      max == s.options.maxReconnectAttempts
  IN IF max = 0 \/ s.reconnectAttempts < max
     THEN [s1 EXCEPT !.reconnectAttempts = @ + 1,
                     !.reconnectTimeout = c,
                     !.timers = @ \cup {c},
                     !.conns[c].armed = TRUE]
     ELSE s1

\* A retry decision that arms the timer and leaves the count.
RetryPolicyNeverCounts(s, c) ==
  LET s1 == [s EXCEPT !.sinceZero = @ + 1]
      max == s.options.maxReconnectAttempts
  IN IF s.options.autoReconnect /\ (max = 0 \/ s.reconnectAttempts < max)
     THEN [s1 EXCEPT !.reconnectTimeout = c,
                     !.timers = @ \cup {c},
                     !.conns[c].armed = TRUE]
     ELSE s1

\* A retry decision that does not look at the ceiling.
RetryPolicyUnbounded(s, c) ==
  LET s1 == [s EXCEPT !.sinceZero = @ + 1]
  IN IF s.options.autoReconnect
     THEN [s1 EXCEPT !.reconnectAttempts = @ + 1,
                     !.reconnectTimeout = c,
                     !.timers = @ \cup {c},
                     !.conns[c].armed = TRUE]
     ELSE s1

\* The retry decision of the catch block.
RetryPolicy(s, c) ==
  LET s1 == [s EXCEPT !.sinceZero = @ + 1]
      max == s.options.maxReconnectAttempts
  IN IF s.options.autoReconnect /\ (max = 0 \/ s.reconnectAttempts < max)
     THEN [s1 EXCEPT !.reconnectAttempts = @ + 1,
                     !.reconnectTimeout = c,
                     !.timers = @ \cup {c},
                     !.conns[c].armed = TRUE]
     ELSE s1

\* An end of stream that is answered like EventSource answers it: by the
\* retry decision.
HandleDoneReconnects(s, c) ==
  RetryPolicy(Callback([s EXCEPT !.conns[c].pc = "end", !.done = TRUE], c, "close"), c)

\* An end of stream that does not leave the read loop.
HandleDoneNoBreak(s, c) == Callback([s EXCEPT !.done = TRUE], c, "close")

\* An end of stream that dispatches the frame it finds unfinished.
HandleDoneFlushes(s, c) ==
  LET s1 == IF s.conns[c].buffer.data # <<>> THEN DispatchMessage(s, c) ELSE s
  IN Callback([s1 EXCEPT !.conns[c].pc = "end", !.done = TRUE], c, "close")

\* if (done) { this.options.onClose?.(); break; }
HandleDone(s, c) ==
  Callback([s EXCEPT !.conns[c].pc = "end", !.done = TRUE], c, "close")

\* An open that leaves the attempt count as it is.
HandleResponseNoReset(s, c, body, eof) ==
  LET s1 == [s EXCEPT !.conns[c].pc = "read", !.conns[c].body = body]
      s2 == Callback(s1, c, "open")
  IN IF eof THEN HandleDone(s2, c) ELSE s2

\* After an OK response with a body: the attempt count is reset, onOpen, the
\* reader and the decoder are created, and the first read is awaited.  eof:
\* the body is already closed and empty, so that this read gives done in the
\* same task.
HandleResponse(s, c, body, eof) ==
  LET s1 == ZeroAttempts([s EXCEPT !.conns[c].pc = "read",
                                   !.conns[c].body = body])
      s2 == Callback(s1, c, "open")
  IN IF eof /\ ~s2.thrown THEN HandleDone(s2, c) ELSE s2

\* After a read that gave a chunk of k bytes.  eof: the stream was closed
\* behind this chunk, so that the next read gives done in the same task.
HandleChunk(s, c, k, eof) ==
  LET s1 == ReadChunkBody(s, c, k)
  IN IF eof /\ ~s1.thrown THEN HandleDone(s1, c) ELSE s1

\* A catch that does not look at signal.aborted.
CatchUnchecked(s, c) ==
  RetryPolicy(Callback([s EXCEPT !.conns[c].pc = "failed"], c, "error"), c)

\* A catch that takes the retry decision before it reports the error.
CatchDecidesFirst(s, c) ==
  IF s.conns[c].aborted # "no"
  THEN [s EXCEPT !.conns[c].pc = "end"]
  ELSE Callback(RetryPolicy([s EXCEPT !.conns[c].pc = "failed"], c), c, "error")

\* A catch that swallows what onError throws.
CatchGuardsOnError(s, c) ==
  IF s.conns[c].aborted # "no"
  THEN [s EXCEPT !.conns[c].pc = "end"]
  ELSE LET s1 == Callback([s EXCEPT !.conns[c].pc = "failed"], c, "error")
       IN RetryPolicy([s1 EXCEPT !.thrown = FALSE], c)

\* catch (err): a rejected fetch or read, a thrown HTTP or body error, an
\* error thrown by a callback in the try block.  What onError throws here is
\* caught by nothing: performConnect() rejects, and connect() has dropped its
\* promise.
Catch(s, c) ==
  IF s.conns[c].aborted # "no"
  THEN [s EXCEPT !.conns[c].pc = "end"]
  ELSE LET s1 == Callback([s EXCEPT !.conns[c].pc = "failed"], c, "error")
       IN IF s1.thrown
          THEN [s1 EXCEPT !.thrown = FALSE, !.escaped = TRUE]
          ELSE RetryPolicy(s1, c)

\* try { ... } catch (err): what a callback threw in the try block is caught.
Try(s, c) == IF s.thrown THEN Catch([s EXCEPT !.thrown = FALSE], c) ELSE s

\* A response check placed behind the reset and onOpen.
HandleBadResponseOpensFirst(s, c) ==
  Catch(Callback(ZeroAttempts(s), c, "open"), c)

\* if (!response.ok) throw ...; if (!response.body) throw ...: the throw is
\* caught by the catch of the same function, before the reset and onOpen.
HandleBadResponse(s, c) == Catch(s, c)

\* A timer whose callback opens nothing.
HandleTimerIdle(s, t) == [s EXCEPT !.timers = @ \ {t}]

\* setTimeout's callback: () => { this.connect() }
HandleTimer(s, t) == Connect([s EXCEPT !.timers = @ \ {t}], "timer")

\* ------------------------------------------------------------------ actions
Conns == 1..Len(conns)

\* A reaction that calls connect() needs a connection left in the bound.
Room(react) == react = "connect" => Len(conns) < MaxConns

\* The caller calls connect().
CallConnect ==
  /\ Len(conns) < MaxConns
  /\ Commit(Called(Connect(St("none", 0), "caller")), "CallConnect", 0)

\* The caller calls disconnect(resetAttempts).
CallDisconnect(resetAttempts) ==
  Commit(Called(Disconnect(St("none", 0), resetAttempts)), "CallDisconnect", 0)

\* The adapter's reconnect action (useSSE, enabled with a url and a client):
\* disconnect(), which is client.disconnect() with its default resetAttempts
\* = true, then client.connect().
Reconnect ==
  /\ Len(conns) < MaxConns
  /\ Commit(Called(Connect(Called(Disconnect(St("none", 0), TRUE)), "caller")),
            "Reconnect", 0)

\* fetch resolves with an OK response that has a body.
FetchOk(c, body, eof, react) ==
  /\ conns[c].pc = "fetch" /\ conns[c].aborted = "no"
  /\ eof => body = <<>>
  /\ Room(react)
  /\ Commit(Try(HandleResponse(St(react, 1), c, body, eof), c), "FetchOk", c)

\* fetch resolves with a response that is not OK or has no body.
FetchBad(c, react) ==
  /\ conns[c].pc = "fetch" /\ conns[c].aborted = "no"
  /\ Room(react)
  /\ Commit(HandleBadResponse(St(react, 1), c), "FetchBad", c)

\* fetch rejects: a network error, or the AbortError of an aborted signal.
FetchRejects(c, react) ==
  /\ conns[c].pc = "fetch"
  /\ conns[c].aborted # "no" => react = "none"
  /\ Room(react)
  /\ Commit(Catch(St(react, 1), c), "FetchRejects", c)

\* reader.read() gives the next k bytes of the body.
ReadChunk(c, k, eof, react, at) ==
  /\ conns[c].pc = "read" /\ conns[c].aborted = "no"
  /\ k \in 1..(Len(conns[c].body) - conns[c].pos)
  /\ eof => conns[c].pos + k = Len(conns[c].body)
  /\ Room(react)
  /\ react = "none" => at = 1
  /\ Commit(Try(HandleChunk(St(react, at), c, k, eof), c), "ReadChunk", c)

\* reader.read() gives done: the server closed the stream.
ReadDone(c, react) ==
  /\ conns[c].pc = "read" /\ conns[c].aborted = "no"
  /\ conns[c].pos = Len(conns[c].body)
  /\ Room(react)
  /\ Commit(Try(HandleDone(St(react, 1), c), c), "ReadDone", c)

\* reader.read() rejects: the stream broke, or the signal was aborted.
ReadRejects(c, react) ==
  /\ conns[c].pc = "read"
  /\ conns[c].aborted # "no" => react = "none"
  /\ Room(react)
  /\ Commit(Catch(St(react, 1), c), "ReadRejects", c)

\* A retry timer fires.
TimerFires(t) ==
  /\ t \in timers
  /\ Len(conns) < MaxConns
  /\ Commit(HandleTimer(St("none", 0), t), "TimerFires", 0)

\* ------------------------------------------------------- the component
\* What the consumer's callbacks of HookSpec do besides returning: they call
\* the disconnect or the reconnect that useSSE returned.
HookReactions == {"none", "useSSE.disconnect", "useSSE.reconnect"}

\* Invocation c is of the client that clientRef holds.
HookLive(c) == hook.owner[c] = hook.gen /\ hook.live

\* The consumer's callbacks reach the client through clientRef; what the
\* callbacks of a disposed client call is not followed.
HookRoom(c, react) ==
  /\ react # "none" => HookLive(c)
  /\ react = "useSSE.reconnect" => Len(conns) < MaxConns

\* The component mounts: its first render and effect.
HookMount(enabled) ==
  /\ hook.phase = "new"
  /\ Commit(Leave(Called(Effect([St("none", 0) EXCEPT !.hook.phase = "mounted",
                                                     !.hook.enabled = enabled]))),
            "HookMount", 0)

\* The consumer changes enabled (or the url to or from empty): the component
\* renders and the effect runs again.
HookSetEnabled ==
  /\ hook.phase = "mounted"
  /\ ~hook.enabled => Len(conns) < MaxConns
  /\ Commit(Leave(Called(Effect([St("none", 0) EXCEPT !.hook.enabled = ~@,
                                                     !.hook.dirty = FALSE]))),
            "HookSetEnabled", 0)

\* The component renders with the same props because state it reads has
\* changed.  The effect's dependencies onOpen, onMessage, onError, onClose
\* have changed when the consumer makes the closures in its render.
HookRender ==
  /\ hook.phase = "mounted" /\ hook.dirty
  /\ (hook.fresh /\ hook.enabled) => Len(conns) < MaxConns
  /\ LET s == [St("none", 0) EXCEPT !.hook.dirty = FALSE]
     IN Commit(Leave(IF hook.fresh THEN Effect(s) ELSE s), "HookRender", 0)

\* The component unmounts.
HookUnmount ==
  /\ hook.phase = "mounted"
  /\ LET s == IF hook.live THEN Cleanup(St("none", 0)) ELSE St("none", 0)
     IN Commit(Leave([s EXCEPT !.hook.phase = "unmounted", !.hook.dirty = FALSE]),
               "HookUnmount", 0)

\* The consumer calls the disconnect, reconnect or clearMessages that useSSE
\* returned, outside the client's callbacks.
HookCallDisconnect ==
  /\ hook.phase = "mounted"
  /\ Commit(Leave(Called(HookDisconnect(St("none", 0)))), "HookCallDisconnect", 0)

HookCallReconnect ==
  /\ hook.phase = "mounted"
  /\ Len(conns) < MaxConns
  /\ Commit(Leave(Called(HookReconnect(St("none", 0)))), "HookCallReconnect", 0)

HookCallClearMessages ==
  /\ hook.phase = "mounted"
  /\ Commit(Leave(HookClearMessages(St("none", 0))), "HookCallClearMessages", 0)

\* The handlers of the client's invocations, each on the fields of the
\* client that made the invocation.
HookFetchOk(c, body, eof, react) ==
  /\ conns[c].pc = "fetch" /\ conns[c].aborted = "no"
  /\ eof => body = <<>>
  /\ HookRoom(c, react)
  /\ Commit(Leave(Try(HandleResponse(Enter(St(react, 1), c), c, body, eof), c)),
            "FetchOk", c)

HookFetchBad(c, react) ==
  /\ conns[c].pc = "fetch" /\ conns[c].aborted = "no"
  /\ HookRoom(c, react)
  /\ Commit(Leave(HandleBadResponse(Enter(St(react, 1), c), c)), "FetchBad", c)

HookFetchRejects(c, react) ==
  /\ conns[c].pc = "fetch"
  /\ conns[c].aborted # "no" => react = "none"
  /\ HookRoom(c, react)
  /\ Commit(Leave(Catch(Enter(St(react, 1), c), c)), "FetchRejects", c)

HookReadChunk(c, k, eof, react, at) ==
  /\ conns[c].pc = "read" /\ conns[c].aborted = "no"
  /\ k \in 1..(Len(conns[c].body) - conns[c].pos)
  /\ eof => conns[c].pos + k = Len(conns[c].body)
  /\ HookRoom(c, react)
  /\ react = "none" => at = 1
  /\ Commit(Leave(Try(HandleChunk(Enter(St(react, at), c), c, k, eof), c)),
            "ReadChunk", c)

HookReadDone(c, react) ==
  /\ conns[c].pc = "read" /\ conns[c].aborted = "no"
  /\ conns[c].pos = Len(conns[c].body)
  /\ HookRoom(c, react)
  /\ Commit(Leave(Try(HandleDone(Enter(St(react, 1), c), c), c)), "ReadDone", c)

HookReadRejects(c, react) ==
  /\ conns[c].pc = "read"
  /\ conns[c].aborted # "no" => react = "none"
  /\ HookRoom(c, react)
  /\ Commit(Leave(Catch(Enter(St(react, 1), c), c)), "ReadRejects", c)

HookTimerFires(t) ==
  /\ t \in timers
  /\ Len(conns) < MaxConns
  /\ Commit(Leave(HandleTimer(Enter(St("none", 0), t), t)), "TimerFires", 0)

\* ----------------------------------------------------------- response bodies
DataA == DATA \o <<":", "A", LF>>
DataB == DATA \o <<":", "B", LF>>

\* The bodies a server of Spec answers with: an empty one, and two frames.
ResponseBodies == { <<>>, DataA \o <<LF>> \o DataB \o <<LF>> }

\* The pieces the bodies of DecSpec are built from: a data line; a frame whose
\* data line has a space and a two-byte character; a blank line; a frame with
\* an event name, a number as data and CR LF line ends; a comment with a line
\* without colon, an id line and a CR LF blank line; an unterminated data
\* line.
Pieces ==
  { DataA,
    DATA \o <<":", " ", Lead, Cont, LF, LF>>,
    <<LF>>,
    EVENT \o <<":", "e", CR, LF>> \o DATA \o <<":", "1", CR, LF, CR, LF>>,
    <<":", "c", LF, "x", LF>> \o ID \o <<":", "7", LF, CR, LF>>,
    DATA \o <<":", "1">> }

\* The chunks a server of Spec sends: it flushes after a frame, so that a
\* chunk of connection c ends behind a blank line (DecSpec cuts anywhere).
FrameEnds(c) ==
  {k \in 2..(Len(conns[c].body) - conns[c].pos) :
     conns[c].body[conns[c].pos + k] = LF /\ conns[c].body[conns[c].pos + k - 1] = LF}

RECURSIVE BodiesOf(_)
BodiesOf(n) ==
  IF n = 0 THEN {<<>>}
  ELSE LET prev == BodiesOf(n - 1)
       IN prev \cup {b \o p : b \in prev, p \in Pieces}

DecBodies == BodiesOf(MaxPieces)

\* The data lines the frames of JoinSpec are made of, each with the value it
\* carries: a plain one, one with a space after the colon and a CR LF line
\* end, and one with an empty value.
DataLineForms ==
  { [value |-> <<"A">>, bytes |-> DataA],
    [value |-> <<"B">>, bytes |-> DATA \o <<":", " ", "B", CR, LF>>],
    [value |-> <<>>, bytes |-> DATA \o <<":", LF>>] }

\* The frames of n data lines: [values: the values in order, bytes: the
\* lines followed by a blank line].
RECURSIVE LinesOf(_)
LinesOf(n) ==
  IF n = 0 THEN {[values |-> <<>>, bytes |-> <<>>]}
  ELSE {[values |-> Append(f.values, d.value), bytes |-> f.bytes \o d.bytes] :
          f \in LinesOf(n - 1), d \in DataLineForms}

JoinFrames ==
  {[values |-> f.values, bytes |-> f.bytes \o <<LF>>] :
     f \in UNION {LinesOf(n) : n \in 1..MaxPieces}}

JoinBodies == {f.bytes : f \in JoinFrames}

\* The pieces the bodies of LineSpec are built from, each of whole lines: a
\* frame in progress with event name, data and id; a comment; a line without
\* colon; a line of an unknown field, with a CR LF line end; a blank line; an
\* event name and an id without data; a whole frame of data alone; a whole
\* frame with event name, data and id.
LinePieces ==
  { EVENT \o <<":", "e", LF>> \o DataA \o ID \o <<":", "7", LF>>,
    <<":", "c", LF>>,
    DATA \o <<LF>>,
    <<"r", "e", "t", "r", "y", ":", "5", CR, LF>>,
    <<LF>>,
    EVENT \o <<":", "e", LF>> \o ID \o <<":", "7", LF>>,
    DataB \o <<LF>>,
    EVENT \o <<":", "e", LF>> \o DataA \o ID \o <<":", "7", LF, LF>> }

RECURSIVE LineBodiesOf(_)
LineBodiesOf(n) ==
  IF n = 0 THEN {<<>>}
  ELSE LET prev == LineBodiesOf(n - 1)
       IN prev \cup {b \o p : b \in prev, p \in LinePieces}

LineBodies == LineBodiesOf(MaxPieces)

\* The chunk of connection c that ends with the next line feed: a server
\* that flushes after every line.
LineEnds(c) ==
  {k \in 1..(Len(conns[c].body) - conns[c].pos) :
     /\ conns[c].body[conns[c].pos + k] = LF
     /\ \A j \in 1..(k - 1) : conns[c].body[conns[c].pos + j] # LF}

\* The frames of MsgSpec.  bytes: the frame with its blank line; event: the
\* event name it sends (<<>>: none, <<text>>: text); raw: its data lines
\* joined; valid: raw is a JSON document, and then doc is the document
\* without white space; structured: the document is an object; type, ts: the
\* type and timestamp the object declares (<<>>: none, <<text>>: text).
MsgFrames ==
  { [bytes |-> DATA \o <<":", " ">> \o DocA \o <<LF, LF>>,
     event |-> <<>>, raw |-> DocA, valid |-> TRUE, doc |-> DocA,
     structured |-> TRUE, type |-> <<>>, ts |-> <<>>],
    [bytes |-> DATA \o <<":", " ">> \o DocTyped \o <<LF, LF>>,
     event |-> <<>>, raw |-> DocTyped, valid |-> TRUE, doc |-> DocTyped,
     structured |-> TRUE, type |-> <<<<"x">>>>, ts |-> <<<<"T">>>>],
    [bytes |-> EVENT \o <<":", "e", LF>> \o DATA \o <<":", " ">> \o DocFalsy \o <<LF, LF>>,
     event |-> <<<<"e">>>>, raw |-> DocFalsy, valid |-> TRUE, doc |-> DocFalsy,
     structured |-> TRUE, type |-> <<<<>>>>, ts |-> <<<<>>>>],
    [bytes |-> DATA \o <<":", " ">> \o NotJSON \o <<LF, LF>>,
     event |-> <<>>, raw |-> NotJSON, valid |-> FALSE, doc |-> <<>>,
     structured |-> FALSE, type |-> <<>>, ts |-> <<>>],
    [bytes |-> DATA \o <<":">> \o DocNull \o <<LF, LF>>,
     event |-> <<>>, raw |-> DocNull, valid |-> TRUE, doc |-> DocNull,
     structured |-> FALSE, type |-> <<>>, ts |-> <<>>],
    [bytes |-> EVENT \o <<":", LF>> \o DATA \o <<":">> \o DocString \o <<CR, LF, CR, LF>>,
     event |-> <<<<>>>>, raw |-> DocString, valid |-> TRUE, doc |-> DocString,
     structured |-> FALSE, type |-> <<>>, ts |-> <<>>],
    [bytes |-> DATA \o <<":", " ">> \o DocAHead \o <<LF>>
               \o DATA \o <<":", " ">> \o DocATail \o <<LF, LF>>,
     event |-> <<>>, raw |-> DocAHead \o <<LF>> \o DocATail, valid |-> TRUE,
     doc |-> DocA, structured |-> TRUE, type |-> <<>>, ts |-> <<>>],
    [bytes |-> DATA \o <<":", " ">> \o DocAHead \o <<LF, LF>>,
     event |-> <<>>, raw |-> DocAHead, valid |-> FALSE, doc |-> <<>>,
     structured |-> FALSE, type |-> <<>>, ts |-> <<>>] }

\* The bodies of up to n frames: [frames: the frames in order, bytes].
RECURSIVE MsgBodiesOf(_)
MsgBodiesOf(n) ==
  IF n = 0 THEN {[frames |-> <<>>, bytes |-> <<>>]}
  ELSE LET prev == MsgBodiesOf(n - 1)
       IN prev \cup {[frames |-> Append(b.frames, f), bytes |-> b.bytes \o f.bytes] :
                       b \in prev, f \in MsgFrames}

MsgBodies == {b.bytes : b \in MsgBodiesOf(MaxPieces)}

\* -------------------------------------------------------------------- store
\* The keys of the subscriptions that share the store.
Keys == {"a", "b"}

\* The messages, connection flags and errors the subscriptions write.
StoreMessages == {"m1", "m2"}

StoreErrors == {<<>>, <<"Connection error">>}

\* An addMessage that puts the new message first.
addMessagePrepends(key, message) ==
  /\ Len(Entry(messages, key)) < MaxMessages
  /\ messages' = Put(messages, key, <<message>> \o Entry(messages, key))
  /\ UNCHANGED <<isConnected, errors, clientVars, hook>>

\* An addMessage that builds the table from the new entry alone.
addMessageNoSpread(key, message) ==
  /\ Len(Entry(messages, key)) < MaxMessages
  /\ messages' = Put(<<>>, key, Append(Entry(messages, key), message))
  /\ UNCHANGED <<isConnected, errors, clientVars, hook>>

\* addMessage: (key, message) => set((state) => ({ messages: ... })); set
\* merges the object it is given into the state.
addMessage(key, message) ==
  /\ Len(Entry(messages, key)) < MaxMessages
  /\ messages' = Put(messages, key, Append(Entry(messages, key), message))
  /\ UNCHANGED <<isConnected, errors, clientVars, hook>>

setConnected(key, connected) ==
  /\ isConnected' = Put(isConnected, key, connected)
  /\ UNCHANGED <<messages, errors, clientVars, hook>>

setError(key, error) ==
  /\ errors' = Put(errors, key, error)
  /\ UNCHANGED <<messages, isConnected, clientVars, hook>>

clearMessages(key) ==
  /\ messages' = Put(messages, key, <<>>)
  /\ UNCHANGED <<isConnected, errors, clientVars, hook>>

\* The bodies of ReuseSpec: one that ends in a data line and a line without its
\* line end, and one that begins with a blank line and has one frame.
ReuseBodies ==
  { DataA \o DATA \o <<":", "1">>,
    <<LF>> \o DataB \o <<LF>> }

\* The bodies a server of HookSpec answers with: an empty one, and one frame.
HookBodies == { <<>>, DataA \o <<LF>> }

\* ------------------------------------------------------------ specifications
\* new SSEClient(options), and the store as create() makes it.
InitClient ==
  /\ options \in [autoReconnect : BOOLEAN, maxReconnectAttempts : 0..MaxCeiling]
  /\ ~options.autoReconnect => options.maxReconnectAttempts = MaxCeiling
  /\ abortController = 0
  /\ reconnectTimeout = 0
  /\ reconnectAttempts = 0
  /\ conns = <<>>
  /\ timers = {}
  /\ sinceZero = 0
  /\ calls = 0
  /\ last = [op |-> "new", c |-> 0, done |-> FALSE, did |-> "none", cbs |-> <<>>,
             escaped |-> FALSE]
  /\ messages = <<>>
  /\ isConnected = <<>>
  /\ errors = <<>>

Init == InitClient /\ hook = NoHook

Next ==
  \/ CallConnect
  \/ \E resetAttempts \in BOOLEAN : CallDisconnect(resetAttempts)
  \/ Reconnect
  \/ \E c \in Conns, body \in ResponseBodies, eof \in BOOLEAN, react \in Reactions :
       FetchOk(c, body, eof, react)
  \/ \E c \in Conns, react \in Reactions : FetchBad(c, react)
  \/ \E c \in Conns, react \in Reactions : FetchRejects(c, react)
  \/ \E c \in Conns : conns[c].pc = "read" /\
       \E k \in FrameEnds(c), eof \in BOOLEAN, react \in Reactions, at \in 1..2 :
         ReadChunk(c, k, eof, react, at)
  \/ \E c \in Conns, react \in Reactions : ReadDone(c, react)
  \/ \E c \in Conns, react \in Reactions : ReadRejects(c, react)
  \/ \E t \in timers : TimerFires(t)

Spec == Init /\ [][Next]_vars

\* The fetch of invocation c settles: with a response or with a rejection.
FetchSettles(c) ==
  /\ c \in Conns
  /\ \/ \E body \in ResponseBodies, eof \in BOOLEAN, react \in Reactions :
          FetchOk(c, body, eof, react)
     \/ \E react \in Reactions : FetchBad(c, react) \/ FetchRejects(c, react)

\* The client where what it waits for comes: a pending fetch settles (the
\* network answers, fails or times out), and a timer that stays set fires
\* (the host's event loop runs setTimeout callbacks).  The caller and the
\* consumer's callbacks stay free to call or not.
FairSpec ==
  /\ Spec
  /\ \A c \in 1..MaxConns : WF_vars(FetchSettles(c))
  /\ \A t \in 1..MaxConns : WF_vars(TimerFires(t))

\* One component that uses useSSE, with or without a storeKey, with callbacks
\* that are the same or new on every render.
HookInit ==
  /\ InitClient
  /\ options.autoReconnect => options.maxReconnectAttempts = 0
  /\ hook \in {[NoHook EXCEPT !.keyed = k, !.fresh = f] : k \in BOOLEAN, f \in BOOLEAN}

HookNext ==
  \/ \E enabled \in BOOLEAN : HookMount(enabled)
  \/ HookSetEnabled
  \/ HookRender
  \/ HookUnmount
  \/ HookCallDisconnect
  \/ HookCallReconnect
  \/ HookCallClearMessages
  \/ \E c \in Conns, body \in HookBodies, eof \in BOOLEAN, react \in HookReactions :
       HookFetchOk(c, body, eof, react)
  \/ \E c \in Conns, react \in HookReactions : HookFetchBad(c, react)
  \/ \E c \in Conns, react \in HookReactions : HookFetchRejects(c, react)
  \/ \E c \in Conns : conns[c].pc = "read" /\
       \E k \in FrameEnds(c), eof \in BOOLEAN, react \in HookReactions :
         HookReadChunk(c, k, eof, react, 1)
  \/ \E c \in Conns, react \in HookReactions : HookReadDone(c, react)
  \/ \E c \in Conns, react \in HookReactions : HookReadRejects(c, react)
  \/ \E t \in timers : HookTimerFires(t)

HookSpec == HookInit /\ [][HookNext]_vars

\* The store, written by the subscriptions of Keys in any order.
StoreInit ==
  Init /\ options = [autoReconnect |-> FALSE, maxReconnectAttempts |-> MaxCeiling]

StoreNext ==
  \/ \E key \in Keys, message \in StoreMessages : addMessage(key, message)
  \/ \E key \in Keys, connected \in BOOLEAN : setConnected(key, connected)
  \/ \E key \in Keys, error \in StoreErrors : setError(key, error)
  \/ \E key \in Keys : clearMessages(key)

StoreSpec == StoreInit /\ [][StoreNext]_vars

\* The client with a consumer whose callbacks return or throw.
ThrowNext ==
  \/ CallConnect
  \/ \E resetAttempts \in BOOLEAN : CallDisconnect(resetAttempts)
  \/ \E c \in Conns, body \in ResponseBodies, eof \in BOOLEAN, react \in ThrowReactions :
       FetchOk(c, body, eof, react)
  \/ \E c \in Conns, react \in ThrowReactions : FetchBad(c, react)
  \/ \E c \in Conns, react \in ThrowReactions : FetchRejects(c, react)
  \/ \E c \in Conns : conns[c].pc = "read" /\
       \E k \in FrameEnds(c), eof \in BOOLEAN, react \in ThrowReactions, at \in 1..2 :
         ReadChunk(c, k, eof, react, at)
  \/ \E c \in Conns, react \in ThrowReactions : ReadDone(c, react)
  \/ \E c \in Conns, react \in ThrowReactions : ReadRejects(c, react)
  \/ \E t \in timers : TimerFires(t)

ThrowSpec == Init /\ [][ThrowNext]_vars

\* One connection of a client whose consumer only returns, over every body of
\* DecBodies and every way of cutting it into chunks.
DecInit == Init /\ options = [autoReconnect |-> FALSE, maxReconnectAttempts |-> MaxCeiling]

DecConnect == conns = <<>> /\ CallConnect

DecNext ==
  \/ DecConnect
  \/ \E c \in Conns : conns[c].pc = "fetch" /\
       \E body \in DecBodies, eof \in BOOLEAN : FetchOk(c, body, eof, "none")
  \/ \E c \in Conns : conns[c].pc = "read" /\
       \E k \in 1..(Len(conns[c].body) - conns[c].pos), eof \in BOOLEAN :
         ReadChunk(c, k, eof, "none", 1)
  \/ \E c \in Conns : ReadDone(c, "none")

DecSpec == DecInit /\ [][DecNext]_vars

\* One client without autoReconnect whose caller connects again and again:
\* each connection reads a body of ReuseBodies in chunks cut anywhere, and
\* ends, breaks or is cancelled by the next connect().
ReuseNext ==
  \/ CallConnect
  \/ \E c \in Conns : conns[c].pc = "fetch" /\
       \E body \in ReuseBodies : FetchOk(c, body, FALSE, "none")
  \/ \E c \in Conns : conns[c].pc = "read" /\
       \E k \in 1..(Len(conns[c].body) - conns[c].pos), eof \in BOOLEAN :
         ReadChunk(c, k, eof, "none", 1)
  \/ \E c \in Conns : ReadDone(c, "none")
  \/ \E c \in Conns : ReadRejects(c, "none")

ReuseSpec == DecInit /\ [][ReuseNext]_vars

\* One connection of a client whose consumer only returns, over every frame
\* of JoinFrames and every way of cutting it into chunks.
JoinNext ==
  \/ DecConnect
  \/ \E c \in Conns : conns[c].pc = "fetch" /\
       \E body \in JoinBodies : FetchOk(c, body, FALSE, "none")
  \/ \E c \in Conns : conns[c].pc = "read" /\
       \E k \in 1..(Len(conns[c].body) - conns[c].pos), eof \in BOOLEAN :
         ReadChunk(c, k, eof, "none", 1)
  \/ \E c \in Conns : ReadDone(c, "none")

JoinSpec == DecInit /\ [][JoinNext]_vars

\* One connection of a client whose consumer only returns, over every body of
\* LineBodies, read line by line.
LineNext ==
  \/ DecConnect
  \/ \E c \in Conns : conns[c].pc = "fetch" /\
       \E body \in LineBodies, eof \in BOOLEAN : FetchOk(c, body, eof, "none")
  \/ \E c \in Conns : conns[c].pc = "read" /\
       \E k \in LineEnds(c), eof \in BOOLEAN : ReadChunk(c, k, eof, "none", 1)
  \/ \E c \in Conns : ReadDone(c, "none")

LineSpec == DecInit /\ [][LineNext]_vars

\* One connection of a client whose consumer only returns, over every body of
\* MsgBodies, read line by line.
MsgNext ==
  \/ DecConnect
  \/ \E c \in Conns : conns[c].pc = "fetch" /\
       \E body \in MsgBodies, eof \in BOOLEAN : FetchOk(c, body, eof, "none")
  \/ \E c \in Conns : conns[c].pc = "read" /\
       \E k \in LineEnds(c), eof \in BOOLEAN : ReadChunk(c, k, eof, "none", 1)
  \/ \E c \in Conns : ReadDone(c, "none")

MsgSpec == DecInit /\ [][MsgNext]_vars

\* ==================================================================== claims
\* What a consumer can tell two messages apart by, the generated time aside.
Observed(m) == [event |-> m.event, type |-> m.type, data |-> m.data]

ObservedAll(ms) == [i \in 1..Len(ms) |-> Observed(ms[i])]

\* The messages of a connection that reads the bytes as one chunk.
OneChunk(bytes) ==
  LET fresh == [NewConn("caller") EXCEPT !.pc = "read", !.body = bytes]
      s0 == [St("none", 0) EXCEPT !.conns = <<fresh>>, !.abortController = 1]
  IN IF bytes = <<>> THEN <<>>
     ELSE ReadChunkBody(s0, 1, Len(bytes)).conns[1].msgs

Reading(c) == conns[c].pc \in {"read", "end"} /\ conns[c].aborted = "no"

\* C1: whatever chunks a connection has read the bytes of its body in, the
\* messages it has given to onMessage (event, kind, payload, in order) are
\* those of a connection that reads the same bytes as a single chunk.
C1_ChunkBoundaryInvariance ==
  \A c \in Conns :
    Reading(c) =>
      ObservedAll(conns[c].msgs) =
        ObservedAll(OneChunk(SubSeq(conns[c].body, 1, conns[c].pos)))

\* C1 witness: a body read to its end in chunks of which one ended inside a
\* line, with two messages delivered.
C1_Witness ==
  \E c \in Conns :
    /\ conns[c].pc = "end" /\ conns[c].cut
    /\ conns[c].pos = Len(conns[c].body)
    /\ Len(conns[c].msgs) >= 2

\* The complete lines of a decoded text, each without its trailing CR.
CompleteLines(bytes) ==
  LET segs == SplitLF(TextDecode(<<>>, bytes).out)
  IN [i \in 1..(Len(segs) - 1) |-> Normalize(segs[i])]

IsDataLine(line) == IndexOf(line, ":") = 5 /\ SubSeq(line, 1, 4) = DATA

\* The data values of the lines start..(blank - 1), in order.
RECURSIVE DataValues(_, _, _)
DataValues(lines, start, blank) ==
  IF start >= blank THEN <<>>
  ELSE (IF IsDataLine(lines[start]) THEN <<FieldValue(lines[start], 5)>> ELSE <<>>)
       \o DataValues(lines, start + 1, blank)

\* The payloads of the frames of the lines from the i-th on, in the order of
\* their terminating blank lines; start is the line after the last blank line
\* before the i-th.
RECURSIVE FramePayloads(_, _, _)
FramePayloads(lines, start, i) ==
  IF i > Len(lines) THEN <<>>
  ELSE IF lines[i] # <<>> THEN FramePayloads(lines, start, i + 1)
  ELSE LET values == DataValues(lines, start, i)
       IN (IF values # <<>> THEN <<Payload(JoinLF(values))>> ELSE <<>>)
          \o FramePayloads(lines, i + 1, i + 1)

\* C9: the onMessage calls of a connection are, in order and one for one, the
\* frames with a data line whose terminating blank line it has read.
C9_OneMessagePerFrameInOrder ==
  \A c \in Conns :
    Reading(c) =>
      [i \in 1..Len(conns[c].msgs) |-> conns[c].msgs[i].data] =
        FramePayloads(CompleteLines(SubSeq(conns[c].body, 1, conns[c].pos)), 1, 1)

\* C9 witness: a connection that has delivered two different payloads.
C9_Witness ==
  \E c \in Conns :
    /\ conns[c].pc = "read"
    /\ Len(conns[c].msgs) = 2
    /\ conns[c].msgs[1].data # conns[c].msgs[2].data

\* ---------------------------------------------------------------- lifecycle
AutoBounded == options.autoReconnect /\ options.maxReconnectAttempts > 0

InFlight(c) == conns[c].pc \in {"fetch", "read"} /\ conns[c].aborted = "no"

\* The step is the catch of a genuine failure of invocation last'.c.
FailureStep ==
  /\ last'.op \in {"FetchBad", "FetchRejects", "ReadRejects"}
  /\ conns[last'.c].aborted = "no"

\* C2: with autoReconnect and a ceiling N > 0, the k-th failure since the
\* attempt count was 0 arms a retry timer and makes the count k when k <= N,
\* and arms none when k > N; when the caller has called nothing but its first
\* connect, the failures count up one by one and after the (N+1)-th no timer
\* is pending and no request is in flight.
C2_RetriesUpToCeiling ==
  [][ (AutoBounded /\ FailureStep) =>
        LET c == last'.c
            N == options.maxReconnectAttempts
        IN /\ sinceZero' <= N =>
                /\ c \in timers' /\ reconnectTimeout' = c
                /\ reconnectAttempts' = sinceZero'
           /\ sinceZero' > N =>
                /\ c \notin timers'
                /\ reconnectAttempts' = reconnectAttempts
           /\ calls' = 1 =>
                /\ sinceZero' = sinceZero + 1
                /\ sinceZero' <= N + 1
                /\ sinceZero' = N + 1 =>
                     /\ timers' = {}
                     /\ \A d \in 1..Len(conns') :
                          ~(conns'[d].pc \in {"fetch", "read"} /\ conns'[d].aborted = "no")
    ]_vars

\* C2 witness: after the first connect alone, the (N+1)-th failure in a row
\* has been caught and nothing is pending.
C2_Witness ==
  /\ AutoBounded /\ calls = 1
  /\ last.op \in {"FetchBad", "FetchRejects", "ReadRejects"}
  /\ sinceZero = options.maxReconnectAttempts + 1
  /\ reconnectAttempts = options.maxReconnectAttempts
  /\ timers = {}

\* C3: after the handler of an OK response the attempt count is 0, and it is
\* 0 as long as the opened connection reads, so that its failure finds the
\* whole ceiling.
C3_OpenResetsAttempts ==
  /\ last.op = "FetchOk" => reconnectAttempts = 0
  /\ \A c \in Conns :
       (conns[c].pc = "read" /\ conns[c].aborted = "no") => reconnectAttempts = 0

\* C3 witness: a connection made by the retry timer, in a behaviour in which
\* the caller only called connect once, has just opened.
C3_Witness ==
  /\ last.op = "FetchOk" /\ calls = 1
  /\ conns[last.c].by = "timer" /\ conns[last.c].pc = "read"
  /\ reconnectAttempts = 0

C5_CancellationIsNoFailure ==
  \A c \in Conns :
    conns[c].aborted = "inflight" =>
      /\ "error" \notin conns[c].late
      /\ \A i \in 1..Len(conns[c].h) : conns[c].h[i] # "error"
      /\ ~conns[c].armed
      /\ c \notin timers

\* C5 witness: the rejection of a request aborted in flight has been caught,
\* once before the response and once in the read loop.
C5_Witness ==
  /\ last.op \in {"FetchRejects", "ReadRejects"}
  /\ conns[last.c].aborted = "inflight" /\ conns[last.c].pc = "end"
  /\ options.autoReconnect

\* C6 as claimed: no invocation invokes onOpen, onMessage or onError once its
\* signal is aborted.
C6_NoCallbackAfterCancel ==
  \A c \in Conns : conns[c].late \cap {"open", "msg", "error"} = {}

C8_CleanEndIsNoFailure ==
  [][ (last'.done /\ conns[last'.c].aborted = "no"
       /\ "close" \notin conns'[last'.c].late) =>
        LET c == last'.c
            h == conns'[c].h
        IN /\ reconnectAttempts' = IF last'.op = "FetchOk" THEN 0 ELSE reconnectAttempts
           /\ timers' \subseteq timers
           /\ ~conns'[c].armed
           /\ conns'[c].pc \in {"end", "gone"}
           /\ c = Len(conns') =>
                /\ h[Len(h)] = "close"
                /\ \A i \in 1..(Len(h) - 1) : h[i] \notin {"close", "error"}
    ]_vars

\* C8 witness: a connection of a client with autoReconnect and retries left
\* has read two frames and then the end of the stream.
C8_Witness ==
  /\ last.op = "ReadDone" /\ last.done /\ calls = 1
  /\ options.autoReconnect
  /\ options.maxReconnectAttempts = 0 \/ reconnectAttempts < options.maxReconnectAttempts
  /\ conns[last.c].h = <<"open", "msg", "msg", "close">>
  /\ timers = {}

\* C10: the callbacks of one invocation are an optional onOpen, then
\* onMessage calls, then at most one of onClose and onError: onOpen only
\* first, onMessage only after onOpen, onClose and onError only last.
C10_CallbackTraceShape ==
  \A c \in Conns :
    LET h == conns[c].h
    IN \A i \in 1..Len(h) :
         /\ h[i] = "open" => i = 1
         /\ h[i] = "msg" => h[1] = "open"
         /\ h[i] \in {"close", "error"} => i = Len(h)

\* C10 witness: an invocation that opened, delivered a message and failed.
C10_Witness == \E c \in Conns : conns[c].h = <<"open", "msg", "error">>

\* C11: the catch of a genuine failure invokes onError once and nothing else,
\* and takes the retry decision after it: a consumer that calls disconnect()
\* in onError finds no timer of this catch to clear, so that with
\* autoReconnect the timer is pending and the count is 1 when the handler
\* returns, and without it the count is 0 and no timer is pending.
C11_ErrorOnceThenDecision ==
  [][ FailureStep =>
        /\ last'.cbs = <<"error">>
        /\ last'.did = "disconnect" =>
             IF options.autoReconnect
             THEN /\ last'.c \in timers' /\ reconnectTimeout' = last'.c
                  /\ reconnectAttempts' = 1
             ELSE timers' = {} /\ reconnectAttempts' = 0
    ]_vars

\* C11 witness: a failure in the read loop whose onError called disconnect()
\* has been caught, and its retry timer is pending.
C11_Witness ==
  /\ last.op = "ReadRejects" /\ last.cbs = <<"error">>
  /\ last.did = "disconnect"
  /\ last.c \in timers /\ reconnectAttempts = 1

\* The retry decision allows a retry at the attempt count n.
Allowed(n) ==
  /\ options.autoReconnect
  /\ options.maxReconnectAttempts = 0 \/ n < options.maxReconnectAttempts

\* C12: the handler of a response that is not OK or has no body invokes
\* onError and no other callback (no onOpen, no onMessage), and applies the
\* retry decision to the attempt count as it found it, without a reset: the
\* count goes up by one with a timer armed when a retry is allowed, and stays
\* when not.  (A consumer that calls disconnect() in onError resets the count
\* itself; the decision is then applied to 0.)
C12_BadResponseIsFailure ==
  [][ last'.op = "FetchBad" =>
        LET c == last'.c
            n == IF last'.did = "disconnect" THEN 0 ELSE reconnectAttempts
        IN /\ last'.cbs = <<"error">>
           /\ conns'[c].pc \in {"failed", "gone"}
           /\ IF Allowed(n)
              THEN reconnectAttempts' = n + 1 /\ c \in timers'
              ELSE reconnectAttempts' = n /\ c \notin timers'
    ]_vars

\* C12 witness: the request made by a retry timer got a bad response too, and
\* the count went from 1 to 2.
C12_Witness ==
  /\ last.op = "FetchBad" /\ last.did = "none"
  /\ conns[last.c].by = "timer"
  /\ reconnectAttempts = 2 /\ last.c \in timers

FailureCaught ==
  /\ last.op \in {"FetchBad", "FetchRejects", "ReadRejects"}
  /\ last.cbs = <<"error">>

\* C15: with autoReconnect and the ceiling 0 the attempt count is the number
\* of genuine failures since it was last set to 0, and the catch of every
\* genuine failure leaves its retry timer pending.
C15_UnboundedRetries ==
  (options.autoReconnect /\ options.maxReconnectAttempts = 0) =>
    /\ reconnectAttempts = sinceZero
    /\ FailureCaught =>
         /\ reconnectAttempts >= 1
         /\ last.c \in timers /\ reconnectTimeout = last.c

\* C15 witness: with the ceiling 0, as many failures in a row as the bound on
\* connections allows have each armed a retry.
C15_Witness ==
  /\ options.autoReconnect /\ options.maxReconnectAttempts = 0
  /\ FailureCaught /\ calls = 1
  /\ reconnectAttempts = MaxConns
  /\ last.c \in timers

\* C16: without autoReconnect no timer is ever set and the attempt count is
\* never changed from 0: every request is one the caller asked for, and
\* after the catch of a failure whose onError did not call connect() no
\* request is in flight.
C16_NoRetryWithoutAutoReconnect ==
  ~options.autoReconnect =>
    /\ timers = {} /\ reconnectTimeout = 0
    /\ reconnectAttempts = 0
    /\ \A c \in Conns : conns[c].by = "caller" /\ ~conns[c].armed
    /\ (FailureCaught /\ last.did # "connect") => \A c \in Conns : ~InFlight(c)

\* C16 witness: without autoReconnect, a failure in the read loop has been
\* caught and reported.
C16_Witness ==
  /\ ~options.autoReconnect
  /\ last.op = "ReadRejects" /\ FailureCaught /\ last.did = "none"
  /\ sinceZero >= 1
  /\ \A c \in Conns : ~InFlight(c)

\* C17 as claimed: the abort handle is present only while its request is in
\* flight, and the timer handle only while its timer is pending.
C17_HandlesOnlyWhileLive ==
  /\ abortController # 0 => InFlight(abortController)
  /\ reconnectTimeout # 0 => reconnectTimeout \in timers

\* C18: a handler changes the attempt count in three ways only.  An OK
\* response sets it to 0; the catch of a failure that arms a retry timer adds
\* 1; disconnect(true), called by the caller, by the adapter's reconnect or by
\* the consumer in a callback of the handler, sets it to 0.  Every other
\* handler (a failure that arms no timer, an end of stream, the catch of a
\* cancellation, connect, disconnect(false), a chunk with its messages, a
\* timer) leaves it as it is.  It is never negative.
C18_AttemptCountFrame ==
  [][ LET c == last'.c
          base == IF last'.did = "disconnect" THEN 0 ELSE reconnectAttempts
      IN /\ reconnectAttempts' >= 0
         /\ CASE last'.op = "FetchOk" -> reconnectAttempts' = 0
              [] last'.op = "Reconnect" -> reconnectAttempts' = 0
              [] last'.op = "CallDisconnect" ->
                   /\ CallDisconnect(TRUE) => reconnectAttempts' = 0
                   /\ CallDisconnect(FALSE) => reconnectAttempts' = reconnectAttempts
              [] last'.op \in {"FetchBad", "FetchRejects", "ReadRejects"} ->
                   IF c \in timers' /\ c \notin timers
                   THEN reconnectAttempts' = base + 1
                   ELSE reconnectAttempts' = base
              [] OTHER -> reconnectAttempts' = base
    ]_vars

\* C18 witness: the timer's connect() has left a count of 1 as it was, and
\* the failure of its request, which arms no retry, leaves it too.
C18_Witness ==
  /\ FailureCaught /\ last.did = "none"
  /\ conns[last.c].by = "timer"
  /\ last.c \notin timers
  /\ reconnectAttempts = 1 /\ sinceZero = 2

\* C19 as claimed: a reconnect the caller asks for, by connect() or by the
\* adapter's reconnect action, leaves the attempt count as it is.
C19_ManualReconnectKeepsCount ==
  [][ last'.op \in {"CallConnect", "Reconnect"} =>
        reconnectAttempts' = reconnectAttempts ]_vars

\* The frame a body of JoinSpec was made from.
FrameOf(body) == CHOOSE f \in JoinFrames : f.bytes = body

\* C20: a connection that has read a frame of several data lines to its
\* blank line, in whatever chunks, has delivered one message, whose payload
\* is the values of the lines in order with a line feed between them; before
\* the blank line is read it has delivered none.
C20_DataLinesJoinInOrder ==
  \A c \in Conns :
    Reading(c) =>
      IF conns[c].pos = Len(conns[c].body)
      THEN /\ Len(conns[c].msgs) = 1
           /\ conns[c].msgs[1].data =
                [json |-> FALSE, v |-> JoinLF(FrameOf(conns[c].body).values)]
      ELSE conns[c].msgs = <<>>

\* C20 witness: data A then data B, read in chunks of which one ended inside
\* a line, gave the one payload "A\nB".
C20_Witness ==
  \E c \in Conns :
    /\ conns[c].pc = "end" /\ conns[c].cut
    /\ Len(conns[c].msgs) = 1
    /\ conns[c].msgs[1].data.v = <<"A", LF, "B">>

\* -------------------------------------------------------------------- lines
\* The step is a read of one line by connection c; LineRead(c) is the line,
\* without its line end.
ReadsLine(c) == last'.op = "ReadChunk" /\ last'.c = c

LineRead(c) ==
  Normalize(SubSeq(conns[c].body, conns[c].pos + 1, conns'[c].pos - 1))

\* The line that connection c read last (a line feed, which no line is,
\* when it has read none).
LastLine(c) ==
  LET lines == CompleteLines(SubSeq(conns[c].body, 1, conns[c].pos))
  IN IF lines = <<>> THEN <<LF>> ELSE lines[Len(lines)]

\* A comment, a line without colon, or a line of another field than event,
\* data and id.
Ignorable(line) ==
  /\ line # <<>>
  /\ \/ line[1] = ":"
     \/ \A i \in 1..Len(line) : line[i] # ":"
     \/ SubSeq(line, 1, IndexOf(line, ":") - 1) \notin {EVENT, DATA, ID}

\* C21: the read of a comment, of a line without colon or of a line of an
\* unknown field leaves the frame (event name, data lines, id) as it was,
\* gives no message, reports no error and leaves the connection reading.
C21_IgnoredLinesLeaveFrame ==
  [][ \A c \in Conns :
        (ReadsLine(c) /\ Ignorable(LineRead(c))) =>
          /\ conns'[c].buffer = conns[c].buffer
          /\ conns'[c].msgs = conns[c].msgs
          /\ last'.cbs \in {<<>>, <<"close">>}
          /\ conns'[c].pc = IF last'.done THEN "end" ELSE "read"
    ]_vars

\* C21 witness: a line of an unknown field has been read with a frame in
\* progress that has an event name, a data line and an id.
C21_Witness ==
  \E c \in Conns :
    /\ conns[c].pc = "read" /\ conns[c].pos = Len(conns[c].body)
    /\ LastLine(c) = <<"r", "e", "t", "r", "y", ":", "5">>
    /\ conns[c].buffer = [event |-> <<"e">>, data |-> <<<<"A">>>>, id |-> <<<<"7">>>>]
    /\ conns[c].msgs = <<>>

\* C22: the read of a blank line with no data line in the frame gives no
\* message and leaves the frame, its event name and id too, as it was; with
\* a data line in the frame it gives one message.
C22_BlankLine ==
  [][ \A c \in Conns :
        (ReadsLine(c) /\ LineRead(c) = <<>>) =>
          IF conns[c].buffer.data = <<>>
          THEN /\ conns'[c].buffer = conns[c].buffer
               /\ conns'[c].msgs = conns[c].msgs
               /\ last'.cbs \in {<<>>, <<"close">>}
          ELSE /\ Len(conns'[c].msgs) = Len(conns[c].msgs) + 1
               /\ last'.cbs \in {<<"msg">>, <<"msg", "close">>}
    ]_vars

\* C22 witness: a blank line has been read after an event name and an id
\* without data: no message, and the two are still set.
C22_Witness ==
  \E c \in Conns :
    /\ conns[c].pc = "read" /\ conns[c].pos = Len(conns[c].body)
    /\ LastLine(c) = <<>>
    /\ conns[c].buffer = [event |-> <<"e">>, data |-> <<>>, id |-> <<<<"7">>>>]
    /\ conns[c].msgs = <<>>

\* C23: a step that gives a message leaves the frame empty: event name
\* "message", no data lines, no id.
C23_FrameEmptyAfterDispatch ==
  [][ \A c \in Conns :
        (c <= Len(conns) /\ Len(conns'[c].msgs) > Len(conns[c].msgs)) =>
          conns'[c].buffer = EmptyBuffer
    ]_vars

\* C23 witness: after a frame with event name e, data A and an id, a frame
\* of data B alone gave a message with the event name "message".
C23_Witness ==
  \E c \in Conns :
    /\ Len(conns[c].msgs) = 2
    /\ conns[c].msgs[1].event = <<"e">> /\ conns[c].msgs[1].data.v = <<"A">>
    /\ conns[c].msgs[2].event = MESSAGE /\ conns[c].msgs[2].data.v = <<"B">>
    /\ conns[c].buffer = EmptyBuffer

\* ----------------------------------------------------------------- messages
\* The frames a body of MsgSpec was made of.
FramesOf(body) ==
  (CHOOSE b \in MsgBodiesOf(MaxPieces) : b.bytes = body).frames

\* The number of the frames fs, from the i-th on, that end within the first
\* pos bytes.
RECURSIVE FramesWithin(_, _, _)
FramesWithin(fs, i, pos) ==
  IF i > Len(fs) \/ Len(fs[i].bytes) > pos THEN 0
  ELSE 1 + FramesWithin(fs, i + 1, pos - Len(fs[i].bytes))

\* A declared value that counts: a string that is not empty.
Declared(v) == v # <<>> /\ v[1] # <<>>

\* C24 as claimed: the kind of a message is the type its payload declares
\* when the payload is an object that declares one, and "message" otherwise;
\* its timestamp is the one the payload declares when it is an object that
\* declares one, and the time of the dispatch otherwise; its event is the
\* event name of the frame, "message" when none was sent.
C24_KindTimestampEvent ==
  \A c \in Conns :
    Reading(c) =>
      LET fs == FramesOf(conns[c].body)
      IN \A i \in 1..Len(conns[c].msgs) :
           /\ conns[c].msgs[i].type =
                IF fs[i].structured /\ fs[i].type # <<>> THEN fs[i].type[1] ELSE MESSAGE
           /\ conns[c].msgs[i].timestamp =
                IF fs[i].structured /\ fs[i].ts # <<>> THEN fs[i].ts[1] ELSE Now
           /\ conns[c].msgs[i].event =
                IF fs[i].event # <<>> THEN fs[i].event[1] ELSE MESSAGE

\* C24, amended: as claimed, where a declared type, a declared timestamp and
\* a sent event name count only when they are not empty.
C24_KindTimestampEventTruthy ==
  \A c \in Conns :
    Reading(c) =>
      LET fs == FramesOf(conns[c].body)
      IN \A i \in 1..Len(conns[c].msgs) :
           /\ conns[c].msgs[i].type =
                IF fs[i].structured /\ Declared(fs[i].type) THEN fs[i].type[1] ELSE MESSAGE
           /\ conns[c].msgs[i].timestamp =
                IF fs[i].structured /\ Declared(fs[i].ts) THEN fs[i].ts[1] ELSE Now
           /\ conns[c].msgs[i].event =
                IF Declared(fs[i].event) THEN fs[i].event[1] ELSE MESSAGE

\* C24 witness: a payload that declares type x and timestamp T gave a message
\* of kind x and time T, and an object without them one of kind "message"
\* and the time of the dispatch.
C24_Witness ==
  \E c \in Conns :
    /\ Len(conns[c].msgs) = 2
    /\ conns[c].msgs[1].type = <<"x">> /\ conns[c].msgs[1].timestamp = <<"T">>
    /\ conns[c].msgs[1].event = MESSAGE
    /\ conns[c].msgs[2].data = [json |-> TRUE, v |-> DocA]
    /\ conns[c].msgs[2].type = MESSAGE /\ conns[c].msgs[2].timestamp = Now

\* C25: every frame read to its blank line has given one message, whether its
\* data is JSON or not; a frame whose data is no JSON gave its raw joined
\* data as payload and the kind "message", and the connection that read it
\* has reported no error, was not failed and has armed no retry.
C25_InvalidJSONIsDelivered ==
  \A c \in Conns :
    Reading(c) =>
      LET fs == FramesOf(conns[c].body)
          n == FramesWithin(fs, 1, conns[c].pos)
      IN /\ Len(conns[c].msgs) = n
         /\ \A i \in 1..n :
              IF fs[i].valid
              THEN conns[c].msgs[i].data = [json |-> TRUE, v |-> fs[i].doc]
              ELSE /\ conns[c].msgs[i].data = [json |-> FALSE, v |-> fs[i].raw]
                   /\ conns[c].msgs[i].type = MESSAGE
                   /\ conns[c].msgs[i].timestamp = Now
         /\ \A i \in 1..Len(conns[c].h) : conns[c].h[i] # "error"
         /\ timers = {} /\ reconnectAttempts = 0 /\ sinceZero = 0

\* C25 witness: after a frame of data not-json, delivered as that string, the
\* connection has read and delivered a further frame and then ended.
C25_Witness ==
  \E c \in Conns :
    /\ conns[c].pc = "end"
    /\ Len(conns[c].msgs) = 2
    /\ conns[c].msgs[1].data = [json |-> FALSE, v |-> NotJSON]
    /\ conns[c].msgs[2].data.json
    /\ conns[c].h = <<"open", "msg", "msg", "close">>

\* ------------------------------------------------------------------- faults
\* C26 as claimed: no handler ends with an error that nothing caught, and
\* the catch of a failure that is no cancellation has called onError.
C26_NoFaultEscapes ==
  /\ ~last.escaped
  /\ (last.op \in {"FetchBad", "FetchRejects", "ReadRejects"}
      /\ conns[last.c].aborted = "no") => last.cbs = <<"error">>

\* -------------------------------------------------------------------- store
\* The entries of every key but k are the same in the tables old and new,
\* the keys that have none included.
Kept(old, new, k) ==
  \A j \in Keys \ {k} :
    /\ j \in DOMAIN new <=> j \in DOMAIN old
    /\ j \in DOMAIN old => new[j] = old[j]

\* C27: each store action of key k changes the entry of k in its own table
\* and nothing else: the other keys' entries and the two other tables stay,
\* whatever the subscriptions wrote before; the entry of k is what was
\* written last (for addMessage: the earlier entry with the message appended).
C27_StoreActionsAreKeyed ==
  [][\A k \in Keys :
       /\ \A m \in StoreMessages : addMessage(k, m) =>
            /\ messages'[k] = Append(Entry(messages, k), m)
            /\ Kept(messages, messages', k)
            /\ isConnected' = isConnected /\ errors' = errors
       /\ \A v \in BOOLEAN : setConnected(k, v) =>
            /\ isConnected'[k] = v
            /\ Kept(isConnected, isConnected', k)
            /\ messages' = messages /\ errors' = errors
       /\ \A e \in StoreErrors : setError(k, e) =>
            /\ errors'[k] = e
            /\ Kept(errors, errors', k)
            /\ messages' = messages /\ isConnected' = isConnected
       /\ clearMessages(k) =>
            /\ messages'[k] = <<>>
            /\ Kept(messages, messages', k)
            /\ isConnected' = isConnected /\ errors' = errors]_vars

\* C27 witness: two subscriptions have written: "a" has two messages, is
\* connected and has had its error set back to null; "b" has been cleared
\* and has an error, and has never written its connection flag.
C27_Witness ==
  /\ DOMAIN messages = Keys /\ DOMAIN errors = Keys /\ DOMAIN isConnected = {"a"}
  /\ messages["a"] = <<"m1", "m2">> /\ messages["b"] = <<>>
  /\ isConnected["a"] /\ errors["a"] = <<>> /\ errors["b"] # <<>>

\* ------------------------------------------------------- the attempt count
\* C28: with autoReconnect and a ceiling N > 0, the attempt count is between
\* 0 and N in every state.
C28_AttemptsWithinCeiling ==
  AutoBounded =>
    /\ 0 <= reconnectAttempts
    /\ reconnectAttempts <= options.maxReconnectAttempts

\* C28 witness: a failure found the count at the ceiling: it was caught, the
\* count stayed N and no timer is pending.
C28_Witness ==
  /\ AutoBounded /\ FailureCaught
  /\ sinceZero > options.maxReconnectAttempts
  /\ reconnectAttempts = options.maxReconnectAttempts
  /\ timers = {}

\* ---------------------------------------------------------------- stopping
\* No request is in flight and no timer is pending.
Stopped == timers = {} /\ \A c \in Conns : ~InFlight(c)

\* C29: with autoReconnect and a ceiling N > 0, when the caller calls connect
\* once and neither it nor a callback calls anything else, and no open
\* succeeds, the client comes to stay stopped, with N + 1 requests made and
\* N + 1 failures reported through onError.
C29_StopsAfterCeiling ==
  (AutoBounded /\ <>(calls = 1) /\ [](calls <= 1) /\ [](last.op # "FetchOk")) =>
    <>[](/\ Stopped
         /\ Len(conns) = options.maxReconnectAttempts + 1
         /\ sinceZero = options.maxReconnectAttempts + 1)

\* C29 witness: one connect and nothing else from the caller, N + 1 requests,
\* each one failed and reported, and the client has stopped.
C29_Witness ==
  /\ AutoBounded /\ calls = 1 /\ FailureCaught /\ Stopped
  /\ Len(conns) = options.maxReconnectAttempts + 1
  /\ sinceZero = options.maxReconnectAttempts + 1
  /\ \A c \in Conns : conns[c].pc \in {"failed", "gone"}

\* ------------------------------------------------------------------- timers
\* The step is a call of connect or disconnect: by the caller, the adapter or
\* a callback.
CallStep ==
  \/ last'.op \in {"CallConnect", "CallDisconnect", "Reconnect"}
  \/ last'.did # "none"

\* C30: the step in which a retry timer fires starts exactly one request: one
\* more invocation, in flight, opened by the timer; a pending timer goes only
\* by firing or in a step that calls connect or disconnect; and no timer
\* stays pending for ever (short of the bound on invocations).
C30_TimerOpensOnce ==
  /\ [][ /\ (last'.op = "TimerFires") =>
              /\ Len(conns') = Len(conns) + 1
              /\ conns'[Len(conns')].pc = "fetch"
              /\ conns'[Len(conns')].aborted = "no"
              /\ conns'[Len(conns')].by = "timer"
         /\ (timers \ timers' # {}) => (last'.op = "TimerFires" \/ CallStep) ]_vars
  /\ \A t \in 1..MaxConns :
       []<>(t \notin timers \/ Len(conns) = MaxConns)

\* C30 witness: the timer armed by the first failure has fired, and the
\* request it opened is in flight.
C30_Witness ==
  /\ last.op = "TimerFires" /\ Len(conns) = 2
  /\ conns[2].by = "timer" /\ InFlight(2)
  /\ timers = {} /\ reconnectAttempts = 1 /\ calls = 1

\* ------------------------------------------------------ timers and requests
\* C31 as claimed: no retry timer is pending while a request that is not
\* cancelled is in flight.
C31_NoTimerWhileInFlight ==
  timers = {} \/ \A c \in Conns : ~InFlight(c)

\* C32 as claimed: the catch of a failure whose onError called disconnect()
\* arms no retry timer.
C32_DisconnectInOnErrorStopsRetry ==
  (FailureCaught /\ last.did = "disconnect") =>
    /\ last.c \notin timers
    /\ ~conns[last.c].armed

\* ------------------------------------------------------------ end of stream
\* C33: a connection that has seen the end of its stream has delivered one
\* message for each frame with data whose blank line it read, and none for
\* what came after the last blank line (data lines, a line without its line
\* end); the handler of the end of stream has invoked onClose and nothing
\* else, and onClose is the connection's last callback.
C33_UnfinishedFrameDiscarded ==
  \A c \in Conns :
    (conns[c].pc = "end" /\ conns[c].aborted = "no") =>
      LET h == conns[c].h
      IN /\ [i \in 1..Len(conns[c].msgs) |-> conns[c].msgs[i].data] =
              FramePayloads(CompleteLines(conns[c].body), 1, 1)
         /\ h[Len(h)] = "close"
         /\ \A i \in 1..(Len(h) - 1) : h[i] \in {"open", "msg"}
         /\ (last.op = "ReadDone" /\ last.c = c) => last.cbs = <<"close">>

\* C33 witness: the stream ended behind a data line and a line without its
\* line end: both are still in the decoder, and only onClose was invoked.
C33_Witness ==
  /\ last.op = "ReadDone" /\ last.cbs = <<"close">>
  /\ conns[last.c].pc = "end"
  /\ conns[last.c].buffer.data # <<>>
  /\ conns[last.c].partial # <<>>
  /\ conns[last.c].pos = Len(conns[last.c].body)

\* ------------------------------------------------------------ decoder state
\* C34: an invocation that has not read yet has an empty carry-over line and
\* an empty frame (event "message", no data), and the messages of one that
\* reads are those of its own bytes read by a fresh decoder, whatever the
\* invocations before it left behind.
C34_DecoderPerConnection ==
  \A c \in Conns :
    /\ (conns[c].pc = "fetch" \/ (conns[c].pc = "read" /\ conns[c].pos = 0)) =>
         /\ conns[c].partial = <<>>
         /\ conns[c].pending = <<>>
         /\ conns[c].buffer = EmptyBuffer
    /\ Reading(c) =>
         ObservedAll(conns[c].msgs) =
           ObservedAll(OneChunk(SubSeq(conns[c].body, 1, conns[c].pos)))

\* C34 witness: the third invocation of a client, after two that have
\* returned, has read the body that begins with a blank line, cut inside a
\* line, and has delivered the one message of its own frame.
C34_Witness ==
  /\ Len(conns) = 3 /\ conns[1].pc = "gone" /\ conns[2].pc = "gone"
  /\ conns[3].body = <<LF>> \o DataB \o <<LF>>
  /\ conns[3].pos = Len(conns[3].body) /\ conns[3].cut
  /\ Len(conns[3].msgs) = 1 /\ conns[3].msgs[1].data = Payload(<<"B">>)

\* ---------------------------------------------------------------- the adapter
\* C35 as claimed: a render of the component with the same props, and the
\* delivery of a message to a consumer that only returns, leave the
\* component with the client and the request it had: no client is made, no
\* request is opened and none is cancelled.
C35_OneTransportPerSubscription ==
  [][ (last'.op \in {"HookRender", "ReadChunk"} /\ last'.did = "none") =>
        /\ hook'.gen = hook.gen
        /\ hook'.live = hook.live
        /\ Len(conns') = Len(conns)
        /\ abortController' = abortController
        /\ \A c \in Conns : conns'[c].aborted = "no" <=> conns[c].aborted = "no"
    ]_vars

\* The connected flag that useSSE returns.
HookIsConnected ==
  IF hook.keyed THEN storeKey \in DOMAIN isConnected /\ isConnected[storeKey]
  ELSE hook.localIsConnected

HookHasOpenConnection ==
  \E c \in Conns :
    HookLive(c) /\ conns[c].pc = "read" /\ conns[c].aborted = "no"

\* The handler that ran last belongs to the subscription's client and the
\* last callback it invoked is onError or onClose.
HookReportedEnd ==
  /\ last.c \in Conns /\ hook.owner[last.c] = hook.gen
  /\ last.cbs # <<>> /\ last.cbs[Len(last.cbs)] \in {"error", "close"}

\* C37 as claimed: for a store key used by one subscription, whenever the
\* key's connected flag is true the subscription's client has an opened,
\* non-cancelled connection that has neither ended nor failed; and the flag
\* is false after onError and onClose, after a manual disconnect, after
\* disposal, and while the client waits to retry.
C37_ConnectedFlagIsTruthful ==
  hook.keyed =>
    /\ HookIsConnected => HookHasOpenConnection
    /\ HookReportedEnd => ~HookIsConnected
    /\ last.op = "HookCallDisconnect" => ~HookIsConnected
    /\ (hook.gen > 0 /\ ~hook.live) => ~HookIsConnected
    /\ (\A c \in Conns : ~InFlight(c)) => ~HookIsConnected

\* ------------------------------------------------------ the message history
\* What useSSE returns as messages:
\* storeKey ? storeMessagesArr || [] : localMessages
HookMessages ==
  IF hook.keyed THEN Entry(messages, storeKey) ELSE hook.localMessages

\* C38 as claimed: the message history that useSSE returns never holds more
\* than maxMessages entries, with a storeKey (the store's history) as without
\* one (the local history).
C38_HistoryIsCapped == Len(HookMessages) <= maxMessages

\* ------------------------------------------------- the stored message order
\* C39: for each key the stored sequence is append-only between clears: a
\* step leaves it, empties it, or adds one message at its end and keeps what
\* was there in its order; addMessage(k, m) adds m last, once; only
\* clearMessages(k) shortens the sequence of k, it leaves it empty, and
\* clearing again changes nothing.
C39_AppendOnlyBetweenClears ==
  [][\A k \in Keys :
       LET old == Entry(messages, k)
           new == Entry(messages', k)
       IN /\ \/ new = old
             \/ new = <<>>
             \/ /\ Len(new) = Len(old) + 1
                /\ SubSeq(new, 1, Len(old)) = old
          /\ \A m \in StoreMessages : addMessage(k, m) =>
               /\ new = Append(old, m)
               /\ new[Len(new)] = m
               /\ Len(new) = Len(old) + 1
          /\ Len(new) < Len(old) => clearMessages(k)
          /\ clearMessages(k) =>
               /\ new = <<>>
               /\ Put(messages', k, <<>>) = messages'
     ]_vars

\* C39 witness: "a" holds two different messages in the order of the calls,
\* the second call's message last, and "b" has been cleared.
C39_Witness ==
  /\ "a" \in DOMAIN messages /\ messages["a"] = <<"m2", "m1">>
  /\ "b" \in DOMAIN messages /\ messages["b"] = <<>>
  /\ isConnected = <<>> /\ errors = <<>>

====
